---- MODULE Spec2Model ----
(***************************************************************************)
(* Code-action request orchestration of the LSP plugin:                    *)
(*   plugin/code_actions.py  CodeActionsManager (single-slot response      *)
(*                           cache, request fan-out and aggregation)       *)
(*                           CodeActionOnSaveTask (resolve-apply cycles of *)
(*                           the code actions on save), kind matching      *)
(* Promises are objects with identity: a promise is its index in the       *)
(* sequence `promises`; a fresh promise is appended, none is ever removed. *)
(* Strings that are inspected character by character (code action kinds)   *)
(* are sequences of one-character strings.                                  *)
(***************************************************************************)
EXTENDS Integers, Sequences, FiniteSets, TLC

\* ------------------------------------------------------------------ bounds

\* Calls of request_for_region_async in one behaviour of Spec.
MaxCalls == 3
\* Edits made to the views in one behaviour.
MaxEdits == 1
\* Dispatches in one behaviour of SpecCollect.
MaxDispatch == 1
\* Largest change count of the view in one behaviour of SpecSave.
MaxVersion == 2

\* Buffer ids of the open views.
Views == {1, 2}
\* Regions (a, b) passed by the callers.
Regions == {<<0, 0>>, <<0, 2>>}
\* config names of the sessions attached to a view
SessionNames == {"A", "B"}

\* ------------------------------------------------------- code action kinds

Dot == "."
QuickFix == <<"q", "u", "i", "c", "k", "f", "i", "x">>
Refactor == <<"r", "e", "f", "a", "c", "t", "o", "r">>
Source == <<"s", "o", "u", "r", "c", "e">>
SourceFixAll == Source \o <<Dot, "f", "i", "x", "A", "l", "l">>
SourceOrganizeImports == Source \o <<Dot, "o", "r", "g">>
\* a.get('kind') of an entry without kind (None and '' are both falsy)
NoKind == <<>>

StartsWith(s, prefix) ==
    /\ Len(s) >= Len(prefix)
    /\ SubSeq(s, 1, Len(prefix)) = prefix

\* (MutantKindsIncludePrefix: without `and kind[kinds_item_len] == '.'`)
MutantKindsIncludePrefix(kinds, kind) ==
    IF kind = NoKind THEN FALSE
    ELSE \E i \in 1..Len(kinds) : StartsWith(kind, kinds[i])
KindsIncludeKind(kinds, kind) ==
    IF kind = NoKind THEN FALSE
    ELSE \E i \in 1..Len(kinds) :
            LET kinds_item == kinds[i]
                kinds_item_len == Len(kinds_item)
            IN  \/ kinds_item = kind
                \/ /\ Len(kind) > kinds_item_len
                   /\ StartsWith(kind, kinds_item)
                   /\ kind[kinds_item_len + 1] = Dot

\* ---------------------------------------------------- on-save kind resolver

\* session.get_capability('codeActionProvider.codeActionKinds') or []
GetSessionKinds(session) ==
    IF session = "A" THEN <<SourceFixAll, SourceOrganizeImports>>
    ELSE IF session = "B" THEN <<SourceFixAll>>
    ELSE IF session = "C" THEN <<QuickFix, Source, SourceFixAll>>
    ELSE <<>>

\* positions of the dots of a kind, hence len(session_kind.split('.')) - 1 of them
DotPositions(kind) == {j \in 1..Len(kind) : kind[j] = Dot}

NumParts(kind) == Cardinality(DotPositions(kind)) + 1

\* '.'.join(action_parts[0:i + 1]) for the 0-based i = n - 1: the kind up to its n-th dot
CurrentPart(kind, n) ==
    IF n >= NumParts(kind) THEN kind
    ELSE LET d == CHOOSE j \in DotPositions(kind) :
                    Cardinality({x \in DotPositions(kind) : x <= j}) = n
         IN  SubSeq(kind, 1, d - 1)

RECURSIVE WalkParts(_, _, _, _)
WalkParts(user_actions, session_kind, n, enabled) ==
    IF n > NumParts(session_kind) THEN enabled
    ELSE LET current_part == CurrentPart(session_kind, n)
             isBool == /\ current_part \in DOMAIN user_actions
                       /\ user_actions[current_part] \in BOOLEAN
         IN  WalkParts(user_actions, session_kind, n + 1,
                       IF isBool THEN user_actions[current_part] ELSE enabled)

\* (MutantMatchingFirstPart: as if the loop over the parts stopped at the first
\* part that has a boolean, so that the shortest configured prefix decided.)
MutantMatchingFirstPart(user_actions, session_kinds) ==
    SelectSeq(session_kinds, LAMBDA k :
        LET configured == {n \in 1..NumParts(k) : CurrentPart(k, n) \in DOMAIN user_actions}
        IN  /\ configured # {}
            /\ user_actions[CurrentPart(k, CHOOSE n \in configured :
                                                \A m \in configured : n <= m)])
GetMatchingOnSaveKinds(user_actions, session_kinds) ==
    SelectSeq(session_kinds, LAMBDA k : WalkParts(user_actions, k, 1, FALSE))

SeqContains(s, x) == \E i \in 1..Len(s) : s[i] = x

\* ------------------------------------------------- responses and entries

\* A CodeAction or Command as the filters see it: `command` is "string" for a
\* Command (isinstance(action.get('command'), str)), "object" or "absent" for a
\* CodeAction; `disabled` is the presence of the protocol's disabled object.
Entry(title, kind, command, disabled) ==
    [title |-> title, kind |-> kind, command |-> command, disabled |-> disabled]

IsCommand(action) == action.command = "string"

\* What a session's request settles with: an Error, null, or a list.
ErrorResponse == [type |-> "error", items |-> <<>>]
NullResponse == [type |-> "null", items |-> <<>>]
ListResponse(items) == [type |-> "list", items |-> items]


\* -------------------------------------------------------------- the flows

\* The closure variables of one call: request_for_region_async closes over
\* (session_buffer_diagnostics, only_kinds, manual), request_on_save_async over
\* on_save_actions and the session_buffer_diagnostics it got from the listener.
RegionFlow(only_kinds, manual) ==
    [type |-> "region", only_kinds |-> only_kinds, manual |-> manual,
     on_save_actions |-> <<>>, session_buffer_diagnostics |-> <<>>]

SaveFlow(on_save_actions) ==
    [type |-> "save", only_kinds |-> <<>>, manual |-> FALSE,
     on_save_actions |-> on_save_actions, session_buffer_diagnostics |-> <<>>]

\* the flow of a call made with this list of (session buffer, diagnostics)
WithDiagnostics(flow, session_buffer_diagnostics) ==
    [flow EXCEPT !.session_buffer_diagnostics = session_buffer_diagnostics]

\* one (sb, diags) pair of session_buffer_diagnostics; a session buffer is
\* named by its session
BufferDiagnostics(sb, intersections) == [sb |-> sb, intersections |-> intersections]

\* diagnostics = []; for sb, diags in session_buffer_diagnostics:
\*     if sb.session == session: diagnostics = diags; break
\* (MutantDiagnosticsOfFirstBuffer: without `if sb.session == session`)
MutantDiagnosticsOfFirstBuffer(session_buffer_diagnostics, session) ==
    IF session_buffer_diagnostics = <<>> THEN <<>>
    ELSE Head(session_buffer_diagnostics).intersections
DiagnosticsOfSession(session_buffer_diagnostics, session) ==
    LET own == SelectSeq(session_buffer_diagnostics, LAMBDA pair : pair.sb = session)
    IN  IF own = <<>> THEN <<>> ELSE Head(own).intersections

\* request_factory returned None
NoRequest == [present |-> FALSE, diagnostics |-> <<>>, only |-> <<>>, manual |-> FALSE]

\* Request.codeAction(text_document_code_action_params(view, region, diagnostics, only, manual)).
\* The view and region of the parameters take no part in the dispatch, the
\* cache or the filters; the record keeps the diagnostics, the kinds and the flag.
CodeActionRequest(diagnostics, only, manual) ==
    [present |-> TRUE, diagnostics |-> diagnostics, only |-> only, manual |-> manual]

RegionRequestFactory(flow, session) ==
    CodeActionRequest(DiagnosticsOfSession(flow.session_buffer_diagnostics, session),
                      flow.only_kinds, flow.manual)

\* (MutantSaveRequestAlways: without `if not matching_kinds: return None`)
MutantSaveRequestAlways(flow, session) ==
    CodeActionRequest(DiagnosticsOfSession(flow.session_buffer_diagnostics, session),
                      GetMatchingOnSaveKinds(flow.on_save_actions, GetSessionKinds(session)),
                      FALSE)
SaveRequestFactory(flow, session) ==
    LET session_kinds == GetSessionKinds(session)
        matching_kinds == GetMatchingOnSaveKinds(flow.on_save_actions, session_kinds)
    IN  IF matching_kinds = <<>> THEN NoRequest
        ELSE CodeActionRequest(DiagnosticsOfSession(flow.session_buffer_diagnostics, session),
                               matching_kinds, FALSE)

RequestFactory(flow, session) ==
    IF flow.type = "region" THEN RegionRequestFactory(flow, session)
    ELSE SaveRequestFactory(flow, session)

\* (MutantRegionFilterKeepsCommands: `is_command(a) or` instead of `not is_command(a) and`)
MutantRegionFilterKeepsCommands(flow, session, actions) ==
    IF flow.only_kinds # <<>>
    THEN SelectSeq(actions, LAMBDA a :
            IsCommand(a) \/ KindsIncludeKind(flow.only_kinds, a.kind))
    ELSE IF flow.manual THEN actions
    ELSE SelectSeq(actions, LAMBDA a :
            \/ IsCommand(a)
            \/ a.kind = NoKind
            \/ KindsIncludeKind(<<QuickFix>>, a.kind))
\* (MutantRegionFilterNoImplicit: without the filter of the implicit request)
MutantRegionFilterNoImplicit(flow, session, actions) ==
    IF flow.only_kinds # <<>>
    THEN SelectSeq(actions, LAMBDA a :
            ~IsCommand(a) /\ KindsIncludeKind(flow.only_kinds, a.kind))
    ELSE actions
\* (MutantRegionFilterNoManual: without `if manual: return actions`)
MutantRegionFilterNoManual(flow, session, actions) ==
    IF flow.only_kinds # <<>>
    THEN SelectSeq(actions, LAMBDA a :
            ~IsCommand(a) /\ KindsIncludeKind(flow.only_kinds, a.kind))
    ELSE SelectSeq(actions, LAMBDA a :
            \/ IsCommand(a)
            \/ a.kind = NoKind
            \/ KindsIncludeKind(<<QuickFix>>, a.kind))
RegionResponseFilter(flow, session, actions) ==
    IF flow.only_kinds # <<>>
    THEN SelectSeq(actions, LAMBDA a :
            ~IsCommand(a) /\ KindsIncludeKind(flow.only_kinds, a.kind))
    ELSE IF flow.manual THEN actions
    ELSE SelectSeq(actions, LAMBDA a :
            \/ IsCommand(a)
            \/ a.kind = NoKind
            \/ KindsIncludeKind(<<QuickFix>>, a.kind))

\* (MutantSaveFilterDescendants: kinds_include_kind instead of `in matching_kinds`)
MutantSaveFilterDescendants(flow, session, actions) ==
    SelectSeq(actions, LAMBDA a :
        KindsIncludeKind(GetMatchingOnSaveKinds(flow.on_save_actions, GetSessionKinds(session)),
                         a.kind))
SaveResponseFilter(flow, session, actions) ==
    LET session_kinds == GetSessionKinds(session)
        matching_kinds == GetMatchingOnSaveKinds(flow.on_save_actions, session_kinds)
    IN  SelectSeq(actions, LAMBDA a : SeqContains(matching_kinds, a.kind))

ResponseFilter(flow, session, actions) ==
    IF flow.type = "region" THEN RegionResponseFilter(flow, session, actions)
    ELSE SaveResponseFilter(flow, session, actions)

\* ------------------------------------------- _collect_code_actions_async

NotFiltered == [called |-> FALSE, input |-> <<>>]

\* the entries of a response that survive `if not action.get('disabled')`
MutantKeepDisabled(response) == response.items
EnabledActions(response) == SelectSeq(response.items, LAMBDA a : ~a.disabled)

\* on_response(session, response): the (session.config.name, actions) pair, and
\* the list response_filter was called with, when it was called.
OnResponse(flow, session, response) ==
    IF response.type = "error"
    THEN [name |-> session, actions |-> <<>>, filtered |-> NotFiltered]
    ELSE LET actions == EnabledActions(response)
         IN  IF actions # <<>>
             THEN [name |-> session,
                   actions |-> ResponseFilter(flow, session, actions),
                   filtered |-> [called |-> TRUE, input |-> actions]]
             ELSE [name |-> session, actions |-> <<>>, filtered |-> NotFiltered]

NoResult == [name |-> "", actions |-> <<>>, filtered |-> NotFiltered]

\* task = session.send_request_task(request); tasks.append(task.then(response_handler))
PendingTask(session, request) ==
    [session |-> session, request |-> request, settled |-> FALSE, arrival |-> 0,
     response |-> NullResponse, result |-> NoResult]

\* The loop over listener.sessions_async('codeActionProvider'): one task per
\* session for which the request factory made a request, in enumeration order.
MutantCollectTasksReversed(flow, sessions) ==
    LET requested == SelectSeq(sessions, LAMBDA s : RequestFactory(flow, s).present)
        n == Len(requested)
    IN  [i \in 1..n |-> PendingTask(requested[n + 1 - i],
                                    RequestFactory(flow, requested[n + 1 - i]))]
CollectTasks(flow, sessions) ==
    LET requested == SelectSeq(sessions, LAMBDA s : RequestFactory(flow, s).present)
    IN  [i \in 1..Len(requested) |->
            PendingTask(requested[i], RequestFactory(flow, requested[i]))]

\* Promise.all(tasks): resolved once every promise of the list is resolved
\* (at once for the empty list), with the values in the order of the list.
PromiseAllResolved(tasks) == \A i \in 1..Len(tasks) : tasks[i].settled

PromiseAllValues(tasks) == [i \in 1..Len(tasks) |-> tasks[i].result]

\* Promise.all(tasks).then(...): when the aggregate is produced.
\* (MutantAggregateReadyUnlessError: as if an Error made the session's response
\* handler raise, so that its promise never resolves.)
MutantAggregateReadyUnlessError(tasks) ==
    \A i \in 1..Len(tasks) : tasks[i].settled /\ tasks[i].response.type # "error"
MutantAggregateReadyAny(tasks) == tasks = <<>> \/ \E i \in 1..Len(tasks) : tasks[i].settled
AggregateReady(tasks) == PromiseAllResolved(tasks)

\* lambda sessions: list(filter(lambda session: len(session[1]), sessions))
MutantAggregateKeepEmpty(tasks) ==
    [i \in 1..Len(tasks) |->
        [name |-> tasks[i].result.name, actions |-> tasks[i].result.actions]]
Aggregate(tasks) ==
    LET sessions == PromiseAllValues(tasks)
        nonEmpty == SelectSeq(sessions, LAMBDA session : Len(session.actions) # 0)
    IN  [i \in 1..Len(nonEmpty) |->
            [name |-> nonEmpty[i].name, actions |-> nonEmpty[i].actions]]

\* ------------------------------------------------------------- promises

NoKey == <<>>

\* A promise of an aggregate: the flow and cache key it was created for, its
\* per-session tasks, and its value once resolved.
NewPromise(flow, key, tasks) ==
    [flow |-> flow, key |-> key, tasks |-> tasks,
     resolved |-> AggregateReady(tasks),
     value |-> IF AggregateReady(tasks) THEN Aggregate(tasks) ELSE <<>>]

\* Promise.resolve([])
ResolvedEmpty(flow) ==
    [flow |-> flow, key |-> NoKey, tasks |-> <<>>, resolved |-> TRUE, value |-> <<>>]

\* A task of the promise settles: its response handler runs, and the aggregate
\* resolves when Promise.all is satisfied; a resolved promise keeps its value.
\* `arrival` is history: the rank of the response among those of the dispatch.
SettleTask(promise, i, response) ==
    LET task == promise.tasks[i]
        tasks == [promise.tasks EXCEPT ![i] =
                    [task EXCEPT !.settled = TRUE, !.response = response,
                                 !.arrival = 1 + Cardinality({j \in 1..Len(promise.tasks) :
                                                                promise.tasks[j].settled}),
                                 !.result = OnResponse(promise.flow, task.session, response)]]
    IN  [promise EXCEPT
            !.tasks = tasks,
            !.resolved = promise.resolved \/ AggregateReady(tasks),
            !.value = IF promise.resolved THEN promise.value
                      ELSE IF AggregateReady(tasks) THEN Aggregate(tasks)
                      ELSE <<>>]


\* ---------------------------------------------------------------- state

VARIABLES
    change_count,    \* view.change_count() of each view (by buffer id)
    response_cache,  \* CodeActionsManager._response_cache of actions_manager
    promises,        \* every promise created so far; a promise is its index
    calls,           \* history: the calls made, with what each returned and sent
    save_task,       \* the CodeActionOnSaveTask of view 1 (fields and position)
    evaluation,      \* a function under study: its arguments and what it returned
    interaction      \* the user's code-action selection: quick panel, runs, messages

vars == <<change_count, response_cache, promises, calls, save_task, evaluation,
          interaction>>

\* no CodeActionOnSaveTask has been created
NoSaveTask == [phase |-> "none"]
\* no code action command or lightbulb link has been invoked
NoInteraction == [phase |-> "idle"]

\* nothing has been evaluated
NoEvaluation == [fn |-> "none"]

\* self._response_cache = None
NoCache == [key |-> NoKey, task |-> 0]

\* windows.listener_for_view(view): no listener, or one enumerating `sessions`
\* for the codeActionProvider capability
NoListener == [present |-> FALSE, sessions |-> <<>>, diagnostics |-> <<>>]
Listener(sessions) == [present |-> TRUE, sessions |-> sessions, diagnostics |-> <<>>]
\* a listener whose diagnostics_intersecting_region_async(entire_content_region(view))
\* returns `diagnostics` as its list of (session buffer, diagnostics)
ListenerWithDiagnostics(sessions, diagnostics) ==
    [present |-> TRUE, sessions |-> sessions, diagnostics |-> diagnostics]

\* use_cache = not manual
MutantUseCacheAlways(manual) == TRUE
UseCache(manual) == ~manual

\* "{}#{}:{}".format(view.buffer_id(), view.change_count(), region): the three
\* values are printed between separators that none of them contains, so the
\* string is determined by, and determines, the triple.
MutantKeyWithoutVersion(buffer_id, version, region) == <<buffer_id, 0, region>>
LocationCacheKey(buffer_id, version, region) == <<buffer_id, version, region>>

\* if self._response_cache: cache_key, task = ...; if location_cache_key == cache_key
MutantCacheHitNever(cache, location_cache_key) == FALSE
CacheHit(cache, location_cache_key) ==
    cache # NoCache /\ location_cache_key = cache.key

\* The slot after a call that missed: a mismatching entry is dropped
\* (self._response_cache = None) and, if location_cache_key is set, the slot
\* becomes (location_cache_key, task); a manual call has no key and leaves it.
MutantStoreKeepsOld(cache, location_cache_key, task) ==
    IF location_cache_key # NoKey /\ cache = NoCache
    THEN [key |-> location_cache_key, task |-> task]
    ELSE cache
MutantStoreKeepsOtherView(cache, location_cache_key, task) ==
    IF location_cache_key # NoKey /\ (cache = NoCache \/ cache.key[1] = location_cache_key[1])
    THEN [key |-> location_cache_key, task |-> task]
    ELSE cache
StoreResponse(cache, location_cache_key, task) ==
    IF location_cache_key # NoKey
    THEN [key |-> location_cache_key, task |-> task]
    ELSE cache

\* One entry of the history: the arguments of a call, the slot it found, the
\* promise it returned and the sessions it sent a code-action request to.
CallRecord(flow, view, region, listener, ret, requests) ==
    [flow |-> flow, view |-> view, version |-> change_count[view], region |-> region,
     listener |-> listener.present, sessions |-> listener.sessions,
     before |-> response_cache, ret |-> ret, requests |-> requests]

TaskSessions(tasks) == [i \in 1..Len(tasks) |-> tasks[i].session]

Init ==
    /\ change_count = [v \in Views |-> 0]
    /\ response_cache = NoCache
    /\ promises = <<>>
    /\ calls = <<>>
    /\ save_task = NoSaveTask
    /\ evaluation = NoEvaluation
    /\ interaction = NoInteraction

\* CodeActionsManager.request_for_region_async(view, region,
\* session_buffer_diagnostics, only_kinds, manual)
RequestForRegionAsync(view, region, session_buffer_diagnostics, only_kinds, manual, listener) ==
    LET flow == WithDiagnostics(RegionFlow(only_kinds, manual), session_buffer_diagnostics)
        fresh == Len(promises) + 1
        location_cache_key ==
            IF UseCache(manual)
            THEN LocationCacheKey(view, change_count[view], region)
            ELSE NoKey
    IN  IF ~listener.present
        THEN /\ promises' = Append(promises, ResolvedEmpty(flow))
             /\ calls' = Append(calls, CallRecord(flow, view, region, listener, fresh, <<>>))
             /\ UNCHANGED <<change_count, response_cache>>
        ELSE IF UseCache(manual) /\ CacheHit(response_cache, location_cache_key)
        THEN /\ calls' = Append(calls, CallRecord(flow, view, region, listener,
                                                  response_cache.task, <<>>))
             /\ UNCHANGED <<change_count, response_cache, promises>>
        ELSE LET tasks == CollectTasks(flow, listener.sessions)
             IN  /\ promises' = Append(promises, NewPromise(flow, location_cache_key, tasks))
                 /\ response_cache' = StoreResponse(response_cache, location_cache_key, fresh)
                 /\ calls' = Append(calls, CallRecord(flow, view, region, listener,
                                                      fresh, TaskSessions(tasks)))
                 /\ UNCHANGED change_count

\* CodeActionsManager.request_on_save_async(view, on_save_actions)
RequestOnSaveAsync(view, on_save_actions, listener) ==
    LET flow == WithDiagnostics(SaveFlow(on_save_actions), listener.diagnostics)
        fresh == Len(promises) + 1
    IN  IF ~listener.present
        THEN /\ promises' = Append(promises, ResolvedEmpty(flow))
             /\ calls' = Append(calls, CallRecord(flow, view, <<0, 0>>, listener, fresh, <<>>))
             /\ UNCHANGED <<change_count, response_cache>>
        ELSE LET tasks == CollectTasks(flow, listener.sessions)
             IN  /\ promises' = Append(promises, NewPromise(flow, NoKey, tasks))
                 /\ calls' = Append(calls, CallRecord(flow, view, <<0, 0>>, listener,
                                                      fresh, TaskSessions(tasks)))
                 /\ UNCHANGED <<change_count, response_cache>>

RECURSIVE SumOver(_, _)
SumOver(f, S) ==
    IF S = {} THEN 0
    ELSE LET x == CHOOSE y \in S : TRUE IN f[x] + SumOver(f, S \ {x})

TotalEdits == SumOver(change_count, Views)

\* The document is modified: the view's change count goes up.
Edit(view) ==
    /\ TotalEdits < MaxEdits
    /\ change_count' = [change_count EXCEPT ![view] = @ + 1]
    /\ UNCHANGED <<response_cache, promises, calls>>

\* The request sent to the i-th session of promise p settles with `response`.
Respond(p, i, response) ==
    /\ p \in 1..Len(promises)
    /\ i \in 1..Len(promises[p].tasks)
    /\ ~promises[p].tasks[i].settled
    /\ promises' = [promises EXCEPT ![p] = SettleTask(promises[p], i, response)]
    /\ UNCHANGED <<change_count, response_cache, calls>>

\* ------------------------------------------------------- specification Spec
\* The response cache: automatic and manual requests for two views, edits.

QuickFixEntry == Entry("fix", QuickFix, "absent", FALSE)

CacheListeners == {NoListener, Listener(<<"A">>)}
CacheResponses == {ListResponse(<<QuickFixEntry>>)}

\* Buffer ids and regions enter the code only through the equality of cache
\* keys, so the first call is taken to be for view 1 and region (0, 0).
Request ==
    /\ Len(calls) < MaxCalls
    /\ \E view \in Views, region \in Regions, manual \in BOOLEAN,
          listener \in CacheListeners :
            /\ calls = <<>> => (view = 1 /\ region = <<0, 0>>)
            /\ RequestForRegionAsync(view, region, <<>>, <<>>, manual, listener)
    /\ UNCHANGED <<save_task, evaluation, interaction>>

Change ==
    /\ \E view \in Views : Edit(view)
    /\ UNCHANGED <<save_task, evaluation, interaction>>

Response ==
    /\ \E p \in 1..Len(promises), i \in 1..1, response \in CacheResponses :
        Respond(p, i, response)
    /\ UNCHANGED <<save_task, evaluation, interaction>>

Next == Request \/ Change \/ Response

Spec == Init /\ [][Next]_vars


\* ------------------------------------------------- the history of the calls

CallIds == 1..Len(calls)

\* an automatic call of request_for_region_async
Automatic(i) == calls[i].flow.type = "region" /\ ~calls[i].flow.manual
Manual(i) == calls[i].flow.type = "region" /\ calls[i].flow.manual

\* (buffer id, change count, region) of a call
KeyOf(i) == <<calls[i].view, calls[i].version, calls[i].region>>

\* the slot when call i returned
After(i) == IF i = Len(calls) THEN response_cache ELSE calls[i + 1].before

\* the promise call i returned was created by call i
Fresh(i) == \A h \in 1..(i - 1) : calls[h].ret # calls[i].ret

SameKeyBetween(i, j) ==
    \A k \in (i + 1)..(j - 1) : Automatic(k) => KeyOf(k) = KeyOf(i)

\* --------------------------------------------------------------- claims

\* C1 as stated: of two automatic calls with the same buffer id, change count
\* and region, with no automatic call for another key between them, the second
\* returns the promise the first returned and sends no request.
C1_AsStated ==
    \A i, j \in CallIds :
        (/\ i < j /\ Automatic(i) /\ Automatic(j)
         /\ KeyOf(i) = KeyOf(j) /\ SameKeyBetween(i, j))
        => (calls[j].ret = calls[i].ret /\ calls[j].requests = <<>>)

\* C1 (amended): of two automatic calls with the same buffer id, change count
\* and region, both made while the view has a listener, with no automatic call
\* for another key between them, the second returns the very promise the first
\* returned, pending or settled, and sends no code-action request.
C1_SingleFlight ==
    \A i, j \in CallIds :
        (/\ i < j /\ Automatic(i) /\ Automatic(j)
         /\ calls[i].listener /\ calls[j].listener
         /\ KeyOf(i) = KeyOf(j) /\ SameKeyBetween(i, j))
        => (calls[j].ret = calls[i].ret /\ calls[j].requests = <<>>)

\* Two automatic calls with one key shared a promise that is still pending,
\* with a manual call between them.
C1_Witness ==
    \E i, j \in CallIds :
        /\ i + 1 < j /\ Automatic(i) /\ Automatic(j) /\ Manual(i + 1)
        /\ calls[i].listener /\ calls[j].listener
        /\ KeyOf(i) = KeyOf(j) /\ SameKeyBetween(i, j)
        /\ calls[j].ret = calls[i].ret
        /\ calls[i].requests # <<>>
        /\ ~promises[calls[i].ret].resolved

\* a stored entry, with a key other than that of call j, is in the slot at call j
Mismatch(j) == calls[j].before # NoCache /\ calls[j].before.key # KeyOf(j)

Replaces(j) ==
    /\ After(j) = [key |-> KeyOf(j), task |-> calls[j].ret]
    /\ Fresh(j)
    /\ calls[j].ret # calls[j].before.task

NoStaleVersion ==
    \A i, j \in CallIds :
        (/\ i < j /\ Automatic(i) /\ Automatic(j)
         /\ calls[i].view = calls[j].view /\ calls[i].version < calls[j].version)
        => calls[j].ret # calls[i].ret

\* C2 as stated: every automatic request whose key differs from the stored key
\* replaces the slot with (new key, new promise); a request with a bumped
\* version never receives the promise of the older version; the promise of an
\* entry so superseded is never stored or returned again.
C2_AsStated ==
    /\ \A j \in CallIds : (Automatic(j) /\ Mismatch(j)) => Replaces(j)
    /\ NoStaleVersion
    /\ \A k, j \in CallIds :
        (k <= j /\ Automatic(k) /\ Mismatch(k))
        => (After(j).task # calls[k].before.task
            /\ (k < j => calls[j].ret # calls[k].before.task))

\* C2 (amended): an automatic request made while the view has a listener, whose
\* key differs from the stored key, replaces the slot with (its key, a new
\* promise); a request with a bumped version never receives the promise created
\* for the older version; the promise of the superseded entry is never stored
\* again nor returned to any later caller.
C2_Supersede ==
    /\ \A j \in CallIds :
        (Automatic(j) /\ calls[j].listener /\ Mismatch(j)) => Replaces(j)
    /\ NoStaleVersion
    /\ \A k, j \in CallIds :
        (k <= j /\ Automatic(k) /\ calls[k].listener /\ Mismatch(k))
        => (After(j).task # calls[k].before.task
            /\ (k < j => calls[j].ret # calls[k].before.task))

\* An entry whose aggregation was in flight was superseded by a request for a
\* bumped version of the same view and region; a later call followed.
C2_Witness ==
    \E k, j \in CallIds :
        /\ k < j /\ Automatic(k) /\ calls[k].listener /\ Mismatch(k)
        /\ calls[k].before.key[1] = calls[k].view
        /\ calls[k].before.key[3] = calls[k].region
        /\ calls[k].before.key[2] < calls[k].version
        /\ promises[calls[k].before.task].tasks # <<>>
        /\ ~promises[calls[k].before.task].resolved
        /\ Automatic(j)

\* the aggregations dispatched by automatic calls and not yet resolved
InFlight(i) ==
    /\ Automatic(i) /\ calls[i].listener /\ Fresh(i)
    /\ ~promises[calls[i].ret].resolved

\* C3 as stated: at no time are two aggregations for the same cache key in
\* flight simultaneously.
C3_AsStated ==
    \A i, j \in CallIds :
        (i < j /\ InFlight(i) /\ InFlight(j)) => KeyOf(i) # KeyOf(j)

\* C3 (amended): two aggregations for the same cache key are in flight
\* simultaneously only when an automatic request for a different key was made,
\* on a view with a listener, between their dispatches.
C3_OneInFlightPerStoredKey ==
    \A i, j \in CallIds :
        (i < j /\ InFlight(i) /\ InFlight(j) /\ KeyOf(i) = KeyOf(j))
        => \E k \in (i + 1)..(j - 1) :
              Automatic(k) /\ calls[k].listener /\ KeyOf(k) # KeyOf(i)

\* K1, K2, K1: the second aggregation for K1 is dispatched while the first is
\* still pending.
C3_Witness ==
    \E i, j \in CallIds :
        /\ i < j /\ InFlight(i) /\ InFlight(j) /\ KeyOf(i) = KeyOf(j)
        /\ calls[i].requests # <<>> /\ calls[j].requests # <<>>

\* C4: a manual request leaves the slot as it found it, returns a promise of
\* its own (not the stored one, none returned before), sends a request to every
\* session the listener enumerates even when an automatic entry for the same
\* document, version and region is stored, and its promise is never returned
\* to a later automatic caller.
C4_ManualBypassesCache ==
    \A j \in CallIds :
        Manual(j) =>
            /\ After(j) = calls[j].before
            /\ Fresh(j)
            /\ calls[j].ret # calls[j].before.task
            /\ calls[j].requests = calls[j].sessions
            /\ promises[calls[j].ret].key = NoKey
            /\ \A m \in CallIds : (j < m /\ Automatic(m)) => calls[m].ret # calls[j].ret

\* A manual request was made while an automatic entry for its document, version
\* and region was stored; it sent requests, and an automatic call followed.
C4_Witness ==
    \E j, m \in CallIds :
        /\ Manual(j) /\ calls[j].listener
        /\ calls[j].before # NoCache /\ calls[j].before.key = KeyOf(j)
        /\ calls[j].requests # <<>>
        /\ j < m /\ Automatic(m) /\ calls[m].listener /\ KeyOf(m) = KeyOf(j)

\* every automatic call between i and j is for another view than call i
OtherViewsBetween(i, j) ==
    \A k \in (i + 1)..(j - 1) : Automatic(k) => calls[k].view # calls[i].view

\* C5 as stated: an automatic request for one document never discards the entry
\* created for another document: of two automatic calls with one key, with only
\* calls for other documents between them, the second reuses the first's promise.
C5_AsStated ==
    \A i, j \in CallIds :
        (/\ i < j /\ Automatic(i) /\ Automatic(j)
         /\ calls[i].listener /\ calls[j].listener
         /\ \A k \in (i + 1)..(j - 1) : calls[k].listener
         /\ KeyOf(i) = KeyOf(j) /\ OtherViewsBetween(i, j))
        => calls[j].ret = calls[i].ret

\* C5 (amended): the slot is shared by all documents: an automatic request for
\* one document (its view having a listener) replaces the entry created for
\* another document, so in A, B, A the third call does not reuse A's first
\* aggregation (no later call does): it dispatches a new one.
C5_SlotSharedByViews ==
    /\ \A j \in CallIds :
        (/\ Automatic(j) /\ calls[j].listener
         /\ calls[j].before # NoCache /\ calls[j].before.key[1] # calls[j].view)
        => (Replaces(j) /\ calls[j].requests = calls[j].sessions)
    /\ \A i, k, j \in CallIds :
        (/\ i < k /\ k < j
         /\ Automatic(i) /\ Automatic(k) /\ Automatic(j)
         /\ calls[i].listener /\ calls[k].listener /\ calls[j].listener
         /\ calls[k].view # calls[i].view /\ KeyOf(j) = KeyOf(i))
        => /\ calls[j].ret # calls[i].ret
           /\ k = j - 1 => (Fresh(j) /\ calls[j].requests = calls[j].sessions)

\* Automatic requests for documents A, B, A with A's version and region
\* unchanged: the third dispatched anew.
C5_Witness ==
    \E i \in CallIds :
        /\ i + 2 \in CallIds
        /\ Automatic(i) /\ Automatic(i + 1) /\ Automatic(i + 2)
        /\ calls[i].listener /\ calls[i + 1].listener /\ calls[i + 2].listener
        /\ calls[i + 1].view # calls[i].view /\ KeyOf(i + 2) = KeyOf(i)
        /\ calls[i + 2].requests # <<>>


\* ------------------------------------------------ specification SpecCollect
\* One view; dispatches of the three flows over every enumeration of the
\* sessions, and responses of every shape.

RefactorEntry == Entry("extract", Refactor, "absent", FALSE)
FixAllEntry == Entry("fix all", SourceFixAll, "object", FALSE)
CommandEntry == Entry("run", NoKind, "string", FALSE)
DisabledEntry == Entry("off", QuickFix, "absent", TRUE)

CollectListeners ==
    {NoListener, Listener(<<>>), Listener(<<"A">>),
     Listener(<<"A", "B">>), Listener(<<"B", "A">>)}

CollectResponses ==
    {ErrorResponse, NullResponse, ListResponse(<<>>),
     ListResponse(<<DisabledEntry>>),
     ListResponse(<<DisabledEntry, FixAllEntry>>),
     ListResponse(<<RefactorEntry>>),
     ListResponse(<<QuickFixEntry, CommandEntry>>)}

OnlyKindsInputs == {<<>>, <<QuickFix>>}

OnSaveConfigs ==
    {(SourceFixAll :> TRUE),
     (Source :> TRUE) @@ (SourceOrganizeImports :> FALSE),
     (SourceOrganizeImports :> TRUE)}

DispatchRegion ==
    /\ Len(calls) < MaxDispatch
    /\ \E only_kinds \in OnlyKindsInputs, manual \in BOOLEAN, listener \in CollectListeners :
          RequestForRegionAsync(1, <<0, 0>>, <<>>, only_kinds, manual, listener)
    /\ UNCHANGED <<save_task, evaluation, interaction>>

DispatchOnSave ==
    /\ Len(calls) < MaxDispatch
    /\ \E on_save_actions \in OnSaveConfigs, listener \in CollectListeners :
          RequestOnSaveAsync(1, on_save_actions, listener)
    /\ UNCHANGED <<save_task, evaluation, interaction>>

Settle ==
    /\ \E p \in 1..Len(promises), i \in 1..Cardinality(SessionNames),
          response \in CollectResponses :
            Respond(p, i, response)
    /\ UNCHANGED <<save_task, evaluation, interaction>>

NextCollect == DispatchRegion \/ DispatchOnSave \/ Settle

SpecCollect == Init /\ [][NextCollect]_vars

\* ------------------------------------------------ claims on the dispatcher

PromiseIds == 1..Len(promises)

AllSettled(p) == \A i \in 1..Len(promises[p].tasks) : promises[p].tasks[i].settled

Failed(task) == task.settled /\ task.response.type = "error"

\* the pairs a dispatch owes: of each session that did not fail and whose
\* filtered list is non-empty, in the order of the tasks
OwedPairs(p) ==
    LET good == SelectSeq(promises[p].tasks,
                          LAMBDA t : ~Failed(t) /\ t.result.actions # <<>>)
    IN  [i \in 1..Len(good) |-> [name |-> good[i].session, actions |-> good[i].result.actions]]

\* C6: failure isolation: when the requests of any subset of the sessions
\* settle as an Error, the aggregate still resolves, and holds exactly the
\* pairs of the sessions that did not fail and whose filtered list is
\* non-empty; a failing session contributes no pair, not an empty one.
C6_FailureIsolation ==
    \A p \in PromiseIds :
        /\ AllSettled(p) =>
            /\ promises[p].resolved
            /\ promises[p].value = OwedPairs(p)
        /\ \A i \in 1..Len(promises[p].tasks) :
            Failed(promises[p].tasks[i]) =>
                /\ promises[p].tasks[i].result.actions = <<>>
                /\ \A n \in 1..Len(promises[p].value) :
                      promises[p].value[n].name # promises[p].tasks[i].session

\* Session A failed, session B answered two actions: the aggregate is B's pair.
C6_Witness ==
    \E p \in PromiseIds :
        /\ Len(promises[p].tasks) = 2
        /\ promises[p].tasks[1].session = "A" /\ Failed(promises[p].tasks[1])
        /\ promises[p].tasks[2].session = "B"
        /\ promises[p].resolved
        /\ promises[p].value = <<[name |-> "B", actions |-> <<QuickFixEntry, CommandEntry>>]>>

NoneDisabled(actions) == \A n \in 1..Len(actions) : ~actions[n].disabled

\* C7: no disabled entry appears in an aggregate of the automatic, manual or
\* on-save flow, and the response filter of every flow is only called with
\* lists without disabled entries.
C7_NoDisabledEntry ==
    \A p \in PromiseIds :
        /\ \A n \in 1..Len(promises[p].value) : NoneDisabled(promises[p].value[n].actions)
        /\ \A i \in 1..Len(promises[p].tasks) :
            /\ NoneDisabled(promises[p].tasks[i].result.actions)
            /\ promises[p].tasks[i].result.filtered.called =>
                  NoneDisabled(promises[p].tasks[i].result.filtered.input)

\* A session of the on-save flow answered a disabled and an enabled entry: the
\* filter saw, and the aggregate holds, the enabled one only.
C7_Witness ==
    \E p \in PromiseIds :
        /\ promises[p].flow.type = "save"
        /\ promises[p].resolved
        /\ \E i \in 1..Len(promises[p].tasks) :
            /\ promises[p].tasks[i].response = ListResponse(<<DisabledEntry, FixAllEntry>>)
            /\ promises[p].tasks[i].result.filtered = [called |-> TRUE, input |-> <<FixAllEntry>>]
        /\ promises[p].value # <<>>

\* C8: no pair of a delivered aggregate has an empty action list, whatever the
\* sessions answered.
C8_NoEmptyPair ==
    \A p \in PromiseIds :
        promises[p].resolved =>
            \A n \in 1..Len(promises[p].value) : promises[p].value[n].actions # <<>>

\* One session answered entries that the filter all dropped, the other answered
\* an action that was kept: the aggregate has the one pair.
C8_Witness ==
    \E p \in PromiseIds :
        /\ promises[p].resolved
        /\ Len(promises[p].tasks) = 2
        /\ Len(promises[p].value) = 1
        /\ \E i \in 1..2 :
            /\ promises[p].tasks[i].result.filtered.called
            /\ promises[p].tasks[i].result.filtered.input # <<>>
            /\ promises[p].tasks[i].result.actions = <<>>

\* the place of a session in the enumeration of a call
Position(sessions, name) == CHOOSE n \in 1..Len(sessions) : sessions[n] = name

\* C9: the pairs of an aggregate are in the order in which the sessions were
\* enumerated when the requests were sent, whatever the order of the responses.
C9_EnumerationOrder ==
    \A c \in CallIds :
        (calls[c].listener /\ Fresh(c) /\ promises[calls[c].ret].resolved) =>
            LET value == promises[calls[c].ret].value
            IN  /\ \A n \in 1..Len(value) : SeqContains(calls[c].sessions, value[n].name)
                /\ \A m, n \in 1..Len(value) :
                      m < n => Position(calls[c].sessions, value[m].name)
                               < Position(calls[c].sessions, value[n].name)

\* Sessions enumerated B, A; A answered first; the aggregate is B's pair, then A's.
C9_Witness ==
    \E c \in CallIds :
        /\ calls[c].sessions = <<"B", "A">>
        /\ promises[calls[c].ret].resolved
        /\ Len(promises[calls[c].ret].value) = 2
        /\ promises[calls[c].ret].value[1].name = "B"
        /\ promises[calls[c].ret].tasks[1].arrival = 2

\* C10: the aggregate promise of a dispatch is resolved exactly when every
\* request of the dispatch has settled: not by the first response or Error.
C10_WaitsForAll ==
    \A p \in PromiseIds : promises[p].resolved <=> AllSettled(p)

\* Of two requests one has settled with an Error: the aggregate is pending.
C10_Witness ==
    \E p \in PromiseIds :
        /\ Len(promises[p].tasks) = 2
        /\ Failed(promises[p].tasks[1])
        /\ ~promises[p].tasks[2].settled
        /\ ~promises[p].resolved

\* the number of requests a dispatch sent to session `name`
RequestsTo(c, name) ==
    Cardinality({i \in 1..Len(calls[c].requests) : calls[c].requests[i] = name})

\* the resolved on-save kinds of a session under the configuration of call c
ResolvedKinds(c, name) ==
    GetMatchingOnSaveKinds(calls[c].flow.on_save_actions, GetSessionKinds(name))

\* the request factory of call c makes no request for session `name`: never in
\* request_for_region_async, and in the on-save flow when nothing is resolved
NoRequestFor(c, name) ==
    calls[c].flow.type = "save" /\ ResolvedKinds(c, name) = <<>>

\* C11: a session for which the request factory returns no request receives
\* no code-action request and contributes no pair to the aggregate; in the
\* on-save flow these are exactly the sessions whose resolved on-save kinds
\* are empty; every other enumerated session receives exactly one request per
\* dispatch.
C11_NoRequestNoPair ==
    \A c \in CallIds :
        (calls[c].listener /\ Fresh(c)) =>
            \A n \in 1..Len(calls[c].sessions) :
                LET name == calls[c].sessions[n]
                    value == promises[calls[c].ret].value
                IN  IF NoRequestFor(c, name)
                    THEN /\ RequestsTo(c, name) = 0
                         /\ \A m \in 1..Len(value) : value[m].name # name
                    ELSE RequestsTo(c, name) = 1

\* An on-save dispatch over sessions A and B whose configuration enables a kind
\* that only A advertises: A alone was sent a request, and the aggregate
\* resolved on A's response, without a pair of B.
C11_Witness ==
    \E c \in CallIds :
        /\ calls[c].flow.type = "save"
        /\ calls[c].sessions = <<"A", "B">>
        /\ NoRequestFor(c, "B")
        /\ calls[c].requests = <<"A">>
        /\ promises[calls[c].ret].tasks[1].settled
        /\ promises[calls[c].ret].resolved


\* ------------------------------------------------- specification SpecKinds
\* kinds_include_kind applied to filters of up to MaxKinds kinds.

\* Kinds of a filter or a configuration in one evaluation.
MaxKinds == 2

SourceFixAllX == SourceFixAll \o <<"X">>
SourceFixAllSub == SourceFixAll \o <<Dot, "x">>
UpperSourceFixAll == <<"S">> \o SubSeq(SourceFixAll, 2, Len(SourceFixAll))
SourceDot == Source \o <<Dot>>

KindTexts ==
    {Source, SourceDot, SourceFixAll, SourceFixAllX, SourceFixAllSub,
     UpperSourceFixAll, SourceOrganizeImports, QuickFix}

\* the lists of at most n elements of S
SeqsUpTo(S, n) == UNION {[1..m -> S] : m \in 0..n}

\* no request, no task
Quiet ==
    /\ change_count = [v \in Views |-> 0]
    /\ response_cache = NoCache
    /\ promises = <<>>
    /\ calls = <<>>
    /\ save_task = NoSaveTask
    /\ interaction = NoInteraction

InitKinds ==
    /\ Quiet
    /\ \E kinds \in SeqsUpTo(KindTexts \cup {NoKind}, MaxKinds), kind \in KindTexts \cup {NoKind} :
          evaluation = [fn |-> "kinds_include_kind", kinds |-> kinds, kind |-> kind,
                        returned |-> FALSE, result |-> FALSE]

CallKindsIncludeKind ==
    /\ evaluation.fn = "kinds_include_kind"
    /\ ~evaluation.returned
    /\ evaluation' = [evaluation EXCEPT
                        !.returned = TRUE,
                        !.result = KindsIncludeKind(evaluation.kinds, evaluation.kind)]
    /\ UNCHANGED <<change_count, response_cache, promises, calls, save_task, interaction>>

NextKinds == CallKindsIncludeKind

SpecKinds == InitKinds /\ [][NextKinds]_vars

Returned(fn) == evaluation.fn = fn /\ evaluation.returned

\* kind is k, or k followed by a dot and anything
EqualOrDottedDescendant(kind, k) == kind = k \/ StartsWith(kind, k \o <<Dot>>)

\* C12: kinds_include_kind(kinds, kind) is true iff kind is present and
\* non-empty and, for some k of kinds, kind is k or starts with k followed
\* immediately by a dot; so it is false for an absent or empty kind, filter
\* 'source.fixAll' does not match 'source.fixAllX', and upper and lower case
\* differ.
C12_KindsIncludeKind ==
    Returned("kinds_include_kind") =>
        LET kinds == evaluation.kinds
            kind == evaluation.kind
        IN  /\ evaluation.result <=>
                (/\ kind # NoKind
                 /\ \E i \in 1..Len(kinds) : EqualOrDottedDescendant(kind, kinds[i]))
            /\ kind = NoKind => ~evaluation.result
            /\ (kinds = <<SourceFixAll>> /\ kind \in {SourceFixAllX, UpperSourceFixAll})
                    => ~evaluation.result
            /\ (kinds = <<SourceFixAll>> /\ kind \in {SourceFixAll, SourceFixAllSub})
                    => evaluation.result

\* The filter 'source.fixAll' was applied to 'source.fixAllX': no match.
C12_Witness ==
    /\ Returned("kinds_include_kind")
    /\ evaluation.kinds = <<SourceFixAll>>
    /\ evaluation.kind = SourceFixAllX
    /\ ~evaluation.result


\* ----------------------------------------------- specification SpecResolve
\* get_matching_on_save_kinds applied to every configuration over ConfigKeys
\* and to lists of up to MaxKinds advertised kinds.

ConfigKeys == {Source, SourceFixAll, SourceFixAllSub, SourceOrganizeImports}

\* Dict[str, bool] with keys among ConfigKeys
Configs == UNION {[K -> BOOLEAN] : K \in SUBSET ConfigKeys}

AdvertisedKinds ==
    {Source, SourceFixAll, SourceFixAllX, SourceFixAllSub, SourceOrganizeImports, QuickFix}

InitResolve ==
    /\ Quiet
    /\ \E user_actions \in Configs, session_kinds \in SeqsUpTo(AdvertisedKinds, MaxKinds) :
          evaluation = [fn |-> "get_matching_on_save_kinds",
                        user_actions |-> user_actions, session_kinds |-> session_kinds,
                        returned |-> FALSE, result |-> <<>>]

CallGetMatchingOnSaveKinds ==
    /\ evaluation.fn = "get_matching_on_save_kinds"
    /\ ~evaluation.returned
    /\ evaluation' = [evaluation EXCEPT
                        !.returned = TRUE,
                        !.result = GetMatchingOnSaveKinds(evaluation.user_actions,
                                                          evaluation.session_kinds)]
    /\ UNCHANGED <<change_count, response_cache, promises, calls, save_task, interaction>>

NextResolve == CallGetMatchingOnSaveKinds

SpecResolve == InitResolve /\ [][NextResolve]_vars

\* the lengths of the dot-prefixes of a kind (the kind itself included): the
\* prefix ends where the kind ends or where a dot follows
DotPrefixLengths(kind) ==
    {n \in 0..Len(kind) : n = Len(kind) \/ kind[n + 1] = Dot}

\* the longest dot-prefix of the kind that the configuration gives a boolean
\* maps to true
LongestConfiguredPrefixIsTrue(config, kind) ==
    LET configured == {n \in DotPrefixLengths(kind) : SubSeq(kind, 1, n) \in DOMAIN config}
    IN  /\ configured # {}
        /\ config[SubSeq(kind, 1, CHOOSE n \in configured : \A m \in configured : m <= n)]

\* C13: get_matching_on_save_kinds(config, sessionKinds) returns, in the order
\* of sessionKinds, exactly the session kinds whose longest configured
\* dot-prefix (the kind itself included) maps to true; a kind with no
\* configured prefix is excluded, and every returned kind is one the session
\* advertised.
C13_GetMatchingOnSaveKinds ==
    Returned("get_matching_on_save_kinds") =>
        LET config == evaluation.user_actions
            session_kinds == evaluation.session_kinds
        IN  /\ evaluation.result =
                SelectSeq(session_kinds, LAMBDA k : LongestConfiguredPrefixIsTrue(config, k))
            /\ \A i \in 1..Len(evaluation.result) :
                  SeqContains(session_kinds, evaluation.result[i])
            /\ \A i \in 1..Len(session_kinds) :
                  (\A n \in DotPrefixLengths(session_kinds[i]) :
                        SubSeq(session_kinds[i], 1, n) \notin DOMAIN config)
                  => ~SeqContains(evaluation.result, session_kinds[i])

\* 'source' is enabled and 'source.fixAll' disabled; the session advertises
\* 'source.fixAll' and 'source.org': the result is 'source.org'.
C13_Witness ==
    /\ Returned("get_matching_on_save_kinds")
    /\ evaluation.user_actions = (Source :> TRUE) @@ (SourceFixAll :> FALSE)
    /\ evaluation.session_kinds = <<SourceFixAll, SourceOrganizeImports>>
    /\ evaluation.result = <<SourceOrganizeImports>>


\* ------------------------------------------------ specification SpecFilter
\* on_response of _collect_code_actions_async applied, for every flow, to
\* responses of up to MaxItems entries.

\* Entries of one response.
MaxItems == 2

QuickFixSubEntry == Entry("fix sub", QuickFix \o <<Dot, "x">>, "object", FALSE)
QuickFixXEntry == Entry("fix x", QuickFix \o <<"X">>, "absent", FALSE)
SourceEntry == Entry("source", Source, "absent", FALSE)
FixAllSubEntry == Entry("fix all sub", SourceFixAllSub, "absent", FALSE)
OrganizeEntry == Entry("organize", SourceOrganizeImports, "absent", FALSE)
KindlessEntry == Entry("plain", NoKind, "object", FALSE)

FilterEntries ==
    {QuickFixEntry, QuickFixSubEntry, QuickFixXEntry, RefactorEntry, SourceEntry,
     FixAllEntry, FixAllSubEntry, OrganizeEntry, KindlessEntry, CommandEntry, DisabledEntry}

FilterResponses ==
    {ErrorResponse, NullResponse}
        \cup {ListResponse(items) : items \in SeqsUpTo(FilterEntries, MaxItems)}

FilterFlows ==
    {RegionFlow(only_kinds, manual) :
        only_kinds \in {<<>>, <<QuickFix>>, <<Source>>, <<Refactor, SourceFixAll>>},
        manual \in BOOLEAN}
        \cup {SaveFlow(on_save_actions) : on_save_actions \in OnSaveConfigs}

InitFilter ==
    /\ Quiet
    /\ \E flow \in FilterFlows, session \in SessionNames, response \in FilterResponses :
          evaluation = [fn |-> "on_response", flow |-> flow, session |-> session,
                        response |-> response, returned |-> FALSE, result |-> NoResult]

CallOnResponse ==
    /\ evaluation.fn = "on_response"
    /\ ~evaluation.returned
    /\ evaluation' = [evaluation EXCEPT
                        !.returned = TRUE,
                        !.result = OnResponse(evaluation.flow, evaluation.session,
                                              evaluation.response)]
    /\ UNCHANGED <<change_count, response_cache, promises, calls, save_task, interaction>>

NextFilter == CallOnResponse

SpecFilter == InitFilter /\ [][NextFilter]_vars

\* the non-disabled entries a session returned, in the order returned
NonDisabled(response) == SelectSeq(response.items, LAMBDA a : ~a.disabled)

\* on_response returned for a call of request_for_region_async
RegionReturned(filtered, manual) ==
    /\ Returned("on_response")
    /\ evaluation.flow.type = "region"
    /\ (evaluation.flow.only_kinds # <<>>) = filtered
    /\ evaluation.flow.manual = manual

Matches(kinds, kind) ==
    kind # NoKind /\ \E i \in 1..Len(kinds) : EqualOrDottedDescendant(kind, kinds[i])


\* C15 as stated: with a non-empty kind filter, a session's contribution is
\* exactly the non-disabled entries that are Commands or whose kind matches
\* the filter; Commands are kept.
C15_AsStated ==
    \A manual \in BOOLEAN :
        RegionReturned(TRUE, manual) =>
            evaluation.result.actions =
                SelectSeq(NonDisabled(evaluation.response), LAMBDA a :
                    IsCommand(a) \/ Matches(evaluation.flow.only_kinds, a.kind))

\* C15 (amended): with a non-empty kind filter (only_kinds), a session's
\* contribution is exactly the non-disabled entries that are not Commands and
\* whose kind matches the filter (it is one of the filter's kinds or a dotted
\* descendant of one); Commands are dropped.
C15_FilterDropsCommands ==
    \A manual \in BOOLEAN :
        RegionReturned(TRUE, manual) =>
            /\ evaluation.result.actions =
                SelectSeq(NonDisabled(evaluation.response), LAMBDA a :
                    ~IsCommand(a) /\ Matches(evaluation.flow.only_kinds, a.kind))
            /\ \A n \in 1..Len(evaluation.result.actions) :
                  ~IsCommand(evaluation.result.actions[n])

\* The filter 'quickfix' was applied to a quick fix and a Command: the quick
\* fix alone is the session's contribution.
C15_Witness ==
    /\ RegionReturned(TRUE, TRUE)
    /\ evaluation.flow.only_kinds = <<QuickFix>>
    /\ evaluation.response = ListResponse(<<QuickFixEntry, CommandEntry>>)
    /\ evaluation.result.actions = <<QuickFixEntry>>

\* C16: without a kind filter, for an automatic request (manual=False), a
\* session's contribution is exactly the non-disabled entries that are
\* Commands, have no kind, or whose kind is 'quickfix' or a dotted descendant
\* of it; every other entry ('refactor', 'source.fixAll') is dropped.
C16_AutomaticKeepsQuickFixes ==
    RegionReturned(FALSE, FALSE) =>
        /\ evaluation.result.actions =
            SelectSeq(NonDisabled(evaluation.response), LAMBDA a :
                \/ IsCommand(a)
                \/ a.kind = NoKind
                \/ EqualOrDottedDescendant(a.kind, QuickFix))
        /\ \A n \in 1..Len(evaluation.result.actions) :
              evaluation.result.actions[n] \notin {RefactorEntry, FixAllEntry, QuickFixXEntry}

\* An automatic request was answered a refactoring and a descendant of
\* 'quickfix': the descendant alone is kept.
C16_Witness ==
    /\ RegionReturned(FALSE, FALSE)
    /\ evaluation.response = ListResponse(<<RefactorEntry, QuickFixSubEntry>>)
    /\ evaluation.result.actions = <<QuickFixSubEntry>>

\* C17: without a kind filter, for a manual request (manual=True), a session's
\* contribution is every non-disabled entry the session returned, unchanged
\* and in the order returned, whatever its kind.
C17_ManualKeepsAll ==
    RegionReturned(FALSE, TRUE) =>
        evaluation.result.actions = NonDisabled(evaluation.response)

\* A manual request was answered a refactoring and a Command: both are kept,
\* in that order.
C17_Witness ==
    /\ RegionReturned(FALSE, TRUE)
    /\ evaluation.response = ListResponse(<<RefactorEntry, CommandEntry>>)
    /\ evaluation.result.actions = <<RefactorEntry, CommandEntry>>

\* on_response returned for a call of request_on_save_async
SaveReturned == Returned("on_response") /\ evaluation.flow.type = "save"

\* C18: in the on-save flow a session's contribution is exactly the
\* non-disabled returned entries whose kind equals one of the session's
\* resolved on-save kinds: a dotted descendant or an ancestor of a resolved
\* kind, a kind-less entry and a Command are dropped, also when the server
\* answered more than the kinds requested.
C18_OnSaveExactKinds ==
    SaveReturned =>
        LET resolved == GetMatchingOnSaveKinds(evaluation.flow.on_save_actions,
                                               GetSessionKinds(evaluation.session))
            kept == evaluation.result.actions
        IN  /\ kept = SelectSeq(NonDisabled(evaluation.response), LAMBDA a :
                        \E i \in 1..Len(resolved) : a.kind = resolved[i])
            /\ \A n \in 1..Len(kept) :
                  /\ ~IsCommand(kept[n])
                  /\ kept[n].kind # NoKind
                  /\ SeqContains(resolved, kept[n].kind)

\* 'source.fixAll' is the resolved kind of session B, which answered a
\* descendant of it and an action of that kind: the latter alone is kept.
C18_Witness ==
    /\ SaveReturned
    /\ evaluation.session = "B"
    /\ evaluation.flow.on_save_actions = (SourceFixAll :> TRUE)
    /\ evaluation.response = ListResponse(<<FixAllSubEntry, FixAllEntry>>)
    /\ evaluation.result.actions = <<FixAllEntry>>


\* ------------------------------------------------- CodeActionOnSaveTask
\* The task of view 1. save_task holds its fields (_cancelled, the
\* document_version of _handle_response_async, the promises it waits for), its
\* position (phase), what it reads of the view while it runs (settings,
\* listener), and history: cycles (dispatches), log (the finished cycles), the
\* change count at the start of the cycle and at the handling of its
\* aggregate, _cancelled at the start of the cycle, and the sessions that
\* were gone when the aggregate was handled.

SourcePrefix == Source \o <<Dot>>

\* _get_code_actions_on_save: the user preferences updated with the view's
\* setting, restricted to the keys that start with 'source.'
\* (MutantCodeActionsOnSaveUnfiltered: without `if key.startswith('source.')`)
\* (MutantCodeActionsOnSaveGlobalWins: as if the view's setting were updated
\* with the user preferences)
MutantCodeActionsOnSaveGlobalWins(userprefs, view_code_actions) ==
    LET code_actions == userprefs @@ view_code_actions
        allowed == {key \in DOMAIN code_actions : StartsWith(key, SourcePrefix)}
    IN  [key \in allowed |-> code_actions[key]]
\* (MutantCodeActionsOnSaveKeepsSource: `startswith('source')`, without the dot)
MutantCodeActionsOnSaveKeepsSource(userprefs, view_code_actions) ==
    LET code_actions == view_code_actions @@ userprefs
        allowed == {key \in DOMAIN code_actions : StartsWith(key, Source)}
    IN  [key \in allowed |-> code_actions[key]]
MutantCodeActionsOnSaveUnfiltered(userprefs, view_code_actions) ==
    view_code_actions @@ userprefs
GetCodeActionsOnSave(userprefs, view_code_actions) ==
    LET code_actions == view_code_actions @@ userprefs
        allowed == {key \in DOMAIN code_actions : StartsWith(key, SourcePrefix)}
    IN  [key \in allowed |-> code_actions[key]]

\* is_applicable: bool(view.window()) and bool(cls._get_code_actions_on_save(view))
IsApplicable(has_window, userprefs, view_code_actions) ==
    has_window /\ DOMAIN GetCodeActionsOnSave(userprefs, view_code_actions) # {}

\* session.run_code_action_async(action, progress=False): a promise
RunTask(session, action) ==
    [session |-> session, action |-> action, settled |-> FALSE, outcome |-> "pending"]

\* The loop of _handle_response_async over the pairs of the aggregate; `gone`
\* are the config names for which session_by_name finds no session any more.
\* (MutantRunFirstActions: as if only the first action of each pair were run)
MutantRunFirstActions(responses, gone) ==
    LET found == SelectSeq(responses, LAMBDA pair : pair.name \notin gone)
    IN  [n \in 1..Len(found) |-> RunTask(found[n].name, found[n].actions[1])]
RECURSIVE RunCodeActions(_, _)
RunCodeActions(responses, gone) ==
    IF responses = <<>> THEN <<>>
    ELSE LET config_name == Head(responses).name
             code_actions == Head(responses).actions
         IN  (IF config_name \in gone THEN <<>>
              ELSE [n \in 1..Len(code_actions) |-> RunTask(config_name, code_actions[n])])
             \o RunCodeActions(Tail(responses), gone)

\* CodeActionOnSaveTask(task_runner, on_done) before run_async
NewSaveTask(userprefs, view_code_actions, listener) ==
    [phase |-> "created", cancelled |-> FALSE,
     userprefs |-> userprefs, view_code_actions |-> view_code_actions, listener |-> listener,
     promise |-> 0, document_version |-> 0, tasks |-> <<>>,
     cycles |-> 0, start_version |-> 0, handled_version |-> 0,
     start_cancelled |-> FALSE, gone |-> {},
     completed |-> 0, signalled |-> 0, log |-> <<>>]

\* One entry of the log: the change count when the cycle's requests were
\* dispatched, when its aggregate was handled, and when its actions had run,
\* with _cancelled at that last moment.
CycleRecord(task, version, outcome) ==
    [start |-> task.start_version, handled |-> task.handled_version,
     end |-> version, cancelled |-> task.cancelled, outcome |-> outcome]

\* SaveTask._on_complete: the task is complete, and on_done is called unless
\* the task was cancelled.
OnComplete(task) ==
    [task EXCEPT !.phase = "complete",
                 !.completed = @ + 1,
                 !.signalled = IF task.cancelled THEN @ ELSE @ + 1]

\* previous_document_version != self._task_runner.view.change_count()
MutantVersionChangedNever(previous_document_version, version) == FALSE
VersionChanged(previous_document_version, version) == previous_document_version # version

\* _on_code_actions_completed(previous_document_version), `version` being the
\* view's change count now
\* (MutantCompletedChecksCancelled: with `if self._cancelled: return` first;
\*  MutantCompletedInverted: with == for !=;
\*  MutantCompletedWithCap: as if a third cycle were never scheduled.)
MutantCompletedChecksCancelled(task, version) ==
    IF task.cancelled
    THEN [task EXCEPT !.phase = "returned",
                      !.log = Append(@, CycleRecord(task, version, "returned"))]
    ELSE IF VersionChanged(task.document_version, version)
    THEN [task EXCEPT !.phase = "scheduled",
                      !.log = Append(@, CycleRecord(task, version, "again"))]
    ELSE OnComplete([task EXCEPT !.log = Append(@, CycleRecord(task, version, "complete"))])
MutantCompletedInverted(task, version) ==
    IF ~VersionChanged(task.document_version, version)
    THEN [task EXCEPT !.phase = "scheduled",
                      !.log = Append(@, CycleRecord(task, version, "again"))]
    ELSE OnComplete([task EXCEPT !.log = Append(@, CycleRecord(task, version, "complete"))])
\* (MutantCompletedAndScheduled: as if the `else:` were missing, so that
\* _on_complete ran after the next cycle was scheduled)
MutantCompletedAndScheduled(task, version) ==
    IF VersionChanged(task.document_version, version)
    THEN [OnComplete([task EXCEPT !.log = Append(@, CycleRecord(task, version, "again"))])
            EXCEPT !.phase = "scheduled"]
    ELSE OnComplete([task EXCEPT !.log = Append(@, CycleRecord(task, version, "complete"))])
MutantCompletedWithCap(task, version) ==
    IF VersionChanged(task.document_version, version) /\ task.cycles < 2
    THEN [task EXCEPT !.phase = "scheduled",
                      !.log = Append(@, CycleRecord(task, version, "again"))]
    ELSE OnComplete([task EXCEPT !.log = Append(@, CycleRecord(task, version, "complete"))])
OnCodeActionsCompleted(task, version) ==
    IF VersionChanged(task.document_version, version)
    THEN [task EXCEPT !.phase = "scheduled",
                      !.log = Append(@, CycleRecord(task, version, "again"))]
    ELSE OnComplete([task EXCEPT !.log = Append(@, CycleRecord(task, version, "complete"))])

\* document_version = self._task_runner.view.change_count(), in
\* _handle_response_async; `dispatched` is the change count when the cycle's
\* requests were sent.
MutantBaselineAtDispatch(dispatched, version) == dispatched
DocumentVersion(dispatched, version) == version

\* _handle_response_async(responses)
\* (MutantHandleIgnoresCancelled: without `if self._cancelled: return`)
MutantHandleIgnoresCancelled(task, responses, version, gone) ==
    LET tasks == RunCodeActions(responses, gone)
        applying == [task EXCEPT
                        !.phase = "applying",
                        !.handled_version = version,
                        !.gone = gone,
                        !.document_version = DocumentVersion(task.start_version, version),
                        !.tasks = tasks]
    IN  IF PromiseAllResolved(tasks)
        THEN OnCodeActionsCompleted(applying, version)
        ELSE applying
\* (MutantHandleCancelledCompletes: `self._on_complete()` instead of `return`)
MutantHandleCancelledCompletes(task, responses, version, gone) ==
    IF task.cancelled THEN OnComplete(task)
    ELSE LET tasks == RunCodeActions(responses, gone)
             applying == [task EXCEPT
                            !.phase = "applying",
                            !.handled_version = version,
                            !.gone = gone,
                            !.document_version = DocumentVersion(task.start_version, version),
                            !.tasks = tasks]
         IN  IF PromiseAllResolved(tasks)
             THEN OnCodeActionsCompleted(applying, version)
             ELSE applying
\* (MutantHandleWaitsForARun: as if Promise.all of an empty list never resolved)
MutantHandleWaitsForARun(task, responses, version, gone) ==
    IF task.cancelled THEN [task EXCEPT !.phase = "returned"]
    ELSE LET tasks == RunCodeActions(responses, gone)
             applying == [task EXCEPT
                            !.phase = "applying",
                            !.handled_version = version,
                            !.gone = gone,
                            !.document_version = DocumentVersion(task.start_version, version),
                            !.tasks = tasks]
         IN  applying
HandleResponseAsync(task, responses, version, gone) ==
    IF task.cancelled THEN [task EXCEPT !.phase = "returned"]
    ELSE LET tasks == RunCodeActions(responses, gone)
             applying == [task EXCEPT
                            !.phase = "applying",
                            !.handled_version = version,
                            !.gone = gone,
                            !.document_version = DocumentVersion(task.start_version, version),
                            !.tasks = tasks]
         IN  IF PromiseAllResolved(tasks)
             THEN OnCodeActionsCompleted(applying, version)
             ELSE applying


\* _request_code_actions_async of `task`: the settings are read, the requests
\* are dispatched, and _handle_response_async is attached to the aggregate,
\* which runs it at once when the aggregate is already resolved.
\* (_purge_changes_async sends the pending changes to the servers; it changes
\* nothing of this state.)
RequestCodeActionsAsync(task, gone) ==
    LET on_save_actions == GetCodeActionsOnSave(task.userprefs, task.view_code_actions)
        fresh == Len(promises) + 1
        resolving == [task EXCEPT !.phase = "resolving", !.promise = fresh,
                                  !.cycles = @ + 1, !.start_version = change_count[1],
                                  !.start_cancelled = task.cancelled,
                                  !.tasks = <<>>]
    IN  /\ RequestOnSaveAsync(1, on_save_actions, task.listener)
        /\ save_task' = IF promises'[fresh].resolved
                        THEN HandleResponseAsync(resolving, promises'[fresh].value,
                                                 change_count[1], gone)
                        ELSE resolving

\* The save command creates the task of an applicable view and calls run_async.
RunAsync(userprefs, view_code_actions, listener) ==
    /\ save_task = NoSaveTask
    /\ IsApplicable(TRUE, userprefs, view_code_actions)
    /\ RequestCodeActionsAsync(NewSaveTask(userprefs, view_code_actions, listener), {})
    /\ UNCHANGED <<evaluation, interaction>>

\* The callback of sublime.set_timeout_async(self._request_code_actions_async)
RequestAgain ==
    /\ save_task.phase = "scheduled"
    /\ RequestCodeActionsAsync(save_task, {})
    /\ UNCHANGED <<evaluation, interaction>>

\* A code-action request of the task's dispatch settles; the response that
\* resolves the aggregate runs _handle_response_async.
SaveRespond(i, response, gone) ==
    /\ save_task.phase = "resolving"
    /\ Respond(save_task.promise, i, response)
    /\ save_task' = IF promises'[save_task.promise].resolved
                    THEN HandleResponseAsync(save_task, promises'[save_task.promise].value,
                                             change_count[1], gone)
                    ELSE save_task
    /\ UNCHANGED <<evaluation, interaction>>

\* The run of an action settles: "edited" after it changed the document,
\* "unchanged" without a change, "error" with an Error (no change); the one
\* that settles last runs _on_code_actions_completed.
RunSettles(i, outcome) ==
    /\ save_task.phase = "applying"
    /\ i \in 1..Len(save_task.tasks)
    /\ ~save_task.tasks[i].settled
    /\ outcome = "edited" => change_count[1] < MaxVersion
    /\ change_count' = IF outcome = "edited"
                       THEN [change_count EXCEPT ![1] = @ + 1]
                       ELSE change_count
    /\ LET tasks == [save_task.tasks EXCEPT ![i] = [@ EXCEPT !.settled = TRUE,
                                                             !.outcome = outcome]]
           ran == [save_task EXCEPT !.tasks = tasks]
       IN  save_task' = IF PromiseAllResolved(tasks)
                        THEN OnCodeActionsCompleted(ran, change_count'[1])
                        ELSE ran
    /\ UNCHANGED <<response_cache, promises, calls, evaluation, interaction>>

\* the runs the task waits for
RunningTasks == IF save_task.phase = "applying" THEN save_task.tasks ELSE <<>>

Running == save_task.phase \in {"resolving", "applying", "scheduled"}

\* The document of the view is modified by something else while the task runs.
SaveEdit ==
    /\ Running
    /\ change_count[1] < MaxVersion
    /\ change_count' = [change_count EXCEPT ![1] = @ + 1]
    /\ UNCHANGED <<response_cache, promises, calls, save_task, evaluation, interaction>>

\* SaveTask.cancel()
Cancel ==
    /\ Running
    /\ ~save_task.cancelled
    /\ save_task' = [save_task EXCEPT !.cancelled = TRUE]
    /\ UNCHANGED <<change_count, response_cache, promises, calls, evaluation, interaction>>

\* --------------------------------------------------- specification SpecSave
\* One run of the on-save task of view 1.

SaveUserPrefs ==
    {(SourceFixAll :> TRUE),
     (QuickFix :> TRUE) @@ (Source :> TRUE) @@ (SourceOrganizeImports :> TRUE)}

\* view.settings().get('lsp_code_actions_on_save') or {}
SaveViewSettings == {<<>>, (SourceFixAll :> TRUE)}

SaveListeners == {NoListener, Listener(<<"A">>), Listener(<<"A", "C">>)}

SaveResponses ==
    {ErrorResponse, ListResponse(<<QuickFixEntry, OrganizeEntry, FixAllEntry>>)}

\* config names whose session may have ended when the aggregate is handled
GoneSessions == {{}, {"A"}}

Save ==
    \E userprefs \in SaveUserPrefs, view_code_actions \in SaveViewSettings,
       listener \in SaveListeners :
        RunAsync(userprefs, view_code_actions, listener)

SaveResponse ==
    \E i \in 1..2, response \in SaveResponses, gone \in GoneSessions :
        SaveRespond(i, response, gone)

RunSettled ==
    \E i \in 1..Len(RunningTasks), outcome \in {"edited", "unchanged", "error"} :
        RunSettles(i, outcome)

NextSave == Save \/ SaveResponse \/ RunSettled \/ SaveEdit \/ Cancel \/ RequestAgain

SpecSave == Init /\ [][NextSave]_vars


\* ------------------------------------------------ claims on the on-save task

Started == save_task.phase # "none"

\* C14: whatever the user and view configuration, the kinds the sessions
\* advertise and the responses, the on-save task never requests and never
\* runs an action whose kind does not begin with 'source.': 'quickfix' is not
\* executed on save even when configured true.
C14_OnlySourceKinds ==
    /\ \A p \in PromiseIds :
        promises[p].flow.type = "save" =>
            \A i \in 1..Len(promises[p].tasks) :
                LET only == promises[p].tasks[i].request.only
                IN  /\ only # <<>>
                    /\ \A n \in 1..Len(only) : StartsWith(only[n], SourcePrefix)
    /\ Started =>
        \A i \in 1..Len(save_task.tasks) :
            StartsWith(save_task.tasks[i].action.kind, SourcePrefix)

\* 'quickfix' is configured true, session C advertises it and answered a quick
\* fix among other actions: the task runs C's 'source.fixAll' action, not the
\* quick fix.
C14_Witness ==
    /\ Started
    /\ QuickFix \in DOMAIN save_task.userprefs
    /\ save_task.userprefs[QuickFix]
    /\ save_task.phase = "applying"
    /\ \E i \in 1..Len(promises[save_task.promise].tasks) :
        /\ promises[save_task.promise].tasks[i].session = "C"
        /\ promises[save_task.promise].tasks[i].response =
              ListResponse(<<QuickFixEntry, OrganizeEntry, FixAllEntry>>)
    /\ \E i \in 1..Len(save_task.tasks) :
        save_task.tasks[i] = RunTask("C", FixAllEntry)


\* the cycles of the run, so far, whose apply phase changed the change count
ChangedApplies ==
    {n \in 1..Len(save_task.log) : save_task.log[n].end # save_task.log[n].handled}

\* the task waits for something that has not happened yet
Waiting ==
    \/ save_task.phase = "resolving" /\ ~promises[save_task.promise].resolved
    \/ save_task.phase = "applying" /\ ~PromiseAllResolved(save_task.tasks)
    \/ save_task.phase = "scheduled" /\ Len(save_task.log) \in ChangedApplies

\* C19: reconvergence of a task that is not cancelled: it is complete, and has
\* signalled completion once, as soon as the actions of a cycle have run
\* without changing the change count (until then it waits for a response, for
\* a run, or for the next cycle after a change); at that moment it has
\* dispatched exactly one cycle if no apply phase changed the change count,
\* and exactly two if exactly one did.
C19_Reconvergence ==
    (Started /\ ~save_task.cancelled) =>
        /\ save_task.phase # "returned"
        /\ save_task.phase # "complete" => (Waiting /\ save_task.signalled = 0)
        /\ save_task.phase = "complete" =>
            /\ save_task.signalled = 1
            /\ save_task.cycles = Len(save_task.log)
            /\ ChangedApplies = {} => save_task.cycles = 1
            /\ Cardinality(ChangedApplies) = 1 => save_task.cycles = 2

\* An action of the first cycle changed the document, the second cycle changed
\* nothing: completion was signalled after two dispatches.
C19_Witness ==
    /\ Started /\ ~save_task.cancelled
    /\ save_task.phase = "complete"
    /\ save_task.signalled = 1
    /\ ChangedApplies = {1}
    /\ save_task.cycles = 2
    /\ Len(save_task.tasks) > 0
    /\ \E c \in CallIds : calls[c].requests # <<>>


\* C20 as stated: a cycle ends in a new Resolving phase whenever the change
\* count when its runs have all settled differs from the one at the start of
\* its Resolving phase, before the requests were dispatched; so a mutation
\* while the requests are in flight causes another cycle.
C20_AsStated ==
    Started =>
        \A n \in 1..Len(save_task.log) :
            save_task.log[n].end # save_task.log[n].start
                => save_task.log[n].outcome = "again"

\* C20 (amended): a cycle ends in a new Resolving phase exactly when the change
\* count at the moment all its runs have settled differs from the baseline
\* read when the aggregate of its Resolving phase was handled (after the
\* responses, right before the actions are run); a mutation while the
\* requests are in flight is part of the baseline and does not by itself
\* cause another cycle.
C20_BaselineWhenHandled ==
    Started =>
        /\ save_task.phase = "applying" =>
              save_task.document_version = save_task.handled_version
        /\ \A n \in 1..Len(save_task.log) :
            /\ save_task.log[n].outcome = "again"
                  <=> save_task.log[n].end # save_task.log[n].handled
            /\ save_task.log[n].outcome = "complete"
                  <=> save_task.log[n].end = save_task.log[n].handled
        /\ save_task.phase = "scheduled" =>
              save_task.log[Len(save_task.log)].outcome = "again"

\* The first cycle's actions changed the document and a second cycle followed;
\* the document was changed again while the second cycle's requests were in
\* flight, its actions changed nothing, and the task completed.
C20_Witness ==
    /\ Started
    /\ Len(save_task.log) = 2
    /\ save_task.log[1].outcome = "again"
    /\ save_task.log[2].start # save_task.log[2].handled
    /\ save_task.log[2].outcome = "complete"
    /\ Len(save_task.tasks) > 0
    /\ save_task.phase = "complete"


\* the call of request_on_save_async made by the current cycle of the task
CycleCall == save_task.cycles

\* the sessions a dispatch of the on-save flow sends a request to
SessionsToRequest(c) ==
    SelectSeq(calls[c].sessions, LAMBDA name : ResolvedKinds(c, name) # <<>>)

\* C21 as stated: when _cancelled is set as a Resolving phase is about to
\* start, the task aborts there: it sends no code-action request to any
\* session, and it does not signal completion.
C21_AsStated ==
    (Started /\ save_task.start_cancelled) =>
        /\ calls[CycleCall].requests = <<>>
        /\ save_task.signalled = 0

\* C21 (amended): when _cancelled is set as a Resolving phase is about to
\* start, the task does not abort there: _request_code_actions_async does not
\* look at the flag and dispatches the code-action requests as in any cycle;
\* the task aborts when the aggregate of that phase settles: it runs no
\* action, schedules nothing, and does not signal completion.
C21_CancelledCycleStillDispatches ==
    (Started /\ save_task.start_cancelled) =>
        /\ calls[CycleCall].listener =>
              calls[CycleCall].requests = SessionsToRequest(CycleCall)
        /\ save_task.promise = calls[CycleCall].ret
        /\ save_task.tasks = <<>>
        /\ save_task.phase = IF promises[save_task.promise].resolved
                             THEN "returned" ELSE "resolving"
        /\ save_task.cycles = Len(save_task.log) + 1
        /\ save_task.signalled = 0

\* The task was cancelled while the next cycle was scheduled: the cycle sent
\* its requests, and the task returned when they were answered.
C21_Witness ==
    /\ Started /\ save_task.start_cancelled
    /\ save_task.cycles = 2
    /\ calls[CycleCall].requests = <<"A", "C">>
    /\ promises[save_task.promise].value # <<>>
    /\ save_task.phase = "returned"


\* C22 as stated: when _cancelled is set by the time all runs of an Applying
\* phase have settled, the task neither signals completion nor schedules
\* another Resolving cycle, whether or not the change count changed.
C22_AsStated ==
    Started =>
        \A n \in 1..Len(save_task.log) :
            save_task.log[n].cancelled =>
                /\ save_task.log[n].outcome # "again"
                /\ save_task.signalled = 0

\* C22 (amended): when _cancelled is set by the time all runs of an Applying
\* phase have settled, the task does not signal completion; if the change
\* count changed it still schedules another Resolving cycle, and otherwise it
\* completes without the signal.
C22_CancelledApplyStillSchedules ==
    Started =>
        \A n \in 1..Len(save_task.log) :
            save_task.log[n].cancelled =>
                /\ save_task.signalled = 0
                /\ save_task.log[n].outcome =
                      IF save_task.log[n].end # save_task.log[n].handled
                      THEN "again" ELSE "complete"
                /\ (n = Len(save_task.log) /\ save_task.cycles = n) =>
                      save_task.phase = IF save_task.log[n].outcome = "again"
                                        THEN "scheduled" ELSE "complete"

\* The task was cancelled while its actions ran, one of which changed the
\* document: the next cycle is scheduled.
C22_Witness ==
    /\ Started
    /\ save_task.phase = "scheduled"
    /\ save_task.cancelled
    /\ save_task.log[Len(save_task.log)].cancelled
    /\ \E i \in 1..Len(save_task.tasks) : save_task.tasks[i].outcome = "edited"


\* the (session name, action) pairs of an aggregate, in its order
RECURSIVE FlattenPairs(_)
FlattenPairs(responses) ==
    IF responses = <<>> THEN <<>>
    ELSE [n \in 1..Len(Head(responses).actions) |->
            [session |-> Head(responses).name, action |-> Head(responses).actions[n]]]
         \o FlattenPairs(Tail(responses))

\* the (session name, action) of the runs the task started in this cycle
Runs == [n \in 1..Len(save_task.tasks) |->
            [session |-> save_task.tasks[n].session, action |-> save_task.tasks[n].action]]

\* the aggregate of this cycle has been handled by a task that was not
\* cancelled
Handled == Started /\ save_task.phase \in {"applying", "scheduled", "complete"}

AllRunsSettled == \A n \in 1..Len(save_task.tasks) : save_task.tasks[n].settled

\* C23 as stated: in the Applying phase every action of every pair of the
\* aggregate is run exactly once on the session of that name.
C23_AsStated ==
    Handled => Runs = FlattenPairs(promises[save_task.promise].value)

\* C23 (amended): in the Applying phase every action of every pair of the
\* aggregate whose session is still found by name is run exactly once on that
\* session (the pairs of a session that is gone are skipped); all runs are
\* started before any has settled; a run that settles with an Error neither
\* prevents the others nor aborts the task: once all have settled the version
\* comparison decides.
C23_RunsEveryActionOfFoundSessions ==
    Handled =>
        /\ Runs = FlattenPairs(SelectSeq(promises[save_task.promise].value,
                                         LAMBDA pair : pair.name \notin save_task.gone))
        /\ save_task.phase = "applying" <=> ~AllRunsSettled
        /\ AllRunsSettled =>
            /\ Len(save_task.log) = save_task.cycles
            /\ save_task.log[save_task.cycles].outcome =
                  IF change_count[1] # save_task.handled_version THEN "again" ELSE "complete"

\* Three actions of two sessions were run; one settled with an Error, the
\* others without a change: the task completed.
C23_Witness ==
    /\ Handled
    /\ Len(save_task.tasks) = 3
    /\ save_task.tasks[1].outcome = "error"
    /\ save_task.tasks[2].outcome = "unchanged"
    /\ save_task.tasks[3].outcome = "unchanged"
    /\ save_task.tasks[1].session # save_task.tasks[3].session
    /\ save_task.phase = "complete"
    /\ save_task.signalled = 1


\* _on_complete is called in this step
Completes ==
    /\ save_task'.phase # "none"
    /\ save_task'.completed > (IF Started THEN save_task.completed ELSE 0)

\* on_done is called in this step
Signals ==
    /\ save_task'.phase # "none"
    /\ save_task'.signalled > (IF Started THEN save_task.signalled ELSE 0)

\* C24: the task signals completion only in a state where all runs of the
\* current cycle have settled and the change count equals the baseline of
\* that cycle: never while the version differs from the baseline or while a
\* run is pending.
C24_CompletesOnlyWhenStable ==
    [][(Completes \/ Signals) =>
            /\ \A n \in 1..Len(save_task'.tasks) : save_task'.tasks[n].settled
            /\ change_count'[1] = save_task'.document_version
            /\ save_task'.document_version = save_task'.handled_version
            /\ save_task'.phase = "complete"]_vars

\* Completion was signalled after two runs, the change count being the one
\* read when the aggregate was handled.
C24_Witness ==
    /\ Started
    /\ save_task.signalled = 1
    /\ Len(save_task.tasks) = 2
    /\ AllRunsSettled
    /\ change_count[1] = save_task.document_version


\* the actions changed the change count in the apply phase of every cycle
\* finished so far
EveryApplyChanged == ChangedApplies = 1..Len(save_task.log)

\* C25: the reconvergence loop has no iteration cap: as long as every apply
\* phase changed the change count, and the task is not cancelled, the task has
\* not completed nor signalled completion, every finished cycle has scheduled
\* a next one, and the scheduled cycle can start, however many went before.
C25_NoIterationCap ==
    (Started /\ ~save_task.cancelled /\ EveryApplyChanged) =>
        /\ save_task.phase # "complete"
        /\ save_task.completed = 0 /\ save_task.signalled = 0
        /\ \A n \in 1..Len(save_task.log) : save_task.log[n].outcome = "again"
        /\ save_task.cycles \in {Len(save_task.log), Len(save_task.log) + 1}
        /\ save_task.phase = "scheduled" =>
              (save_task.cycles = Len(save_task.log) /\ ENABLED RequestAgain)
        /\ save_task.phase # "scheduled" => save_task.cycles = Len(save_task.log) + 1

\* The actions of the first and of the second cycle changed the document: a
\* third cycle has sent its requests.
C25_Witness ==
    /\ Started /\ ~save_task.cancelled
    /\ Len(save_task.log) = 2
    /\ EveryApplyChanged
    /\ save_task.cycles = 3
    /\ calls[3].requests # <<>>


\* ------------------------------------------------- the interactive selection
\* LspCodeActionsCommand (the "lsp_code_actions" command, also behind the
\* annotation link) and the listener's lightbulb link: the quick panel, the
\* selection, the run of the selected action and what is reported.

\* actions.extend([(config_name, action) for action in session_actions]), for
\* each (config_name, session_actions) of the response in turn
RECURSIVE FlattenActions(_)
FlattenActions(response) ==
    IF response = <<>> THEN <<>>
    ELSE [n \in 1..Len(Head(response).actions) |->
            [config_name |-> Head(response).name, action |-> Head(response).actions[n]]]
         \o FlattenActions(Tail(response))

\* map(lambda action: (config_name, action), actions), of the lightbulb link
ActionsOfConfig(config_name, actions) ==
    [n \in 1..Len(actions) |-> [config_name |-> config_name, action |-> actions[n]]]

\* format_code_actions_for_quick_panel(actions): one item per pair, in order,
\* made of the action's title and the session name
FormatCodeActionsForQuickPanel(actions) ==
    [n \in 1..Len(actions) |->
        [title |-> actions[n].action.title, config_name |-> actions[n].config_name]]

\* the command or the link has been invoked: nothing shown, selected or run
NewInteraction(path) ==
    [phase |-> "invoked", path |-> path, promise |-> 0, has_region |-> TRUE,
     has_listener |-> TRUE, handled |-> FALSE,
     run_first |-> FALSE, window |-> TRUE, session |-> "unknown", aggregate |-> <<>>,
     actions |-> <<>>, panels |-> <<>>, status |-> <<>>,
     index |-> -1, selections |-> 0, runs |-> <<>>, responses |-> <<>>,
     errors |-> <<>>]

\* LspCodeActionsCommand._handle_select(index, actions) and
\* DocumentSyncListener.handle_code_action_select(config_name, actions, index):
\* if index == -1: return; sublime.set_timeout_async(run_async)
HandleSelect(it, index) ==
    IF index = -1
    THEN [it EXCEPT !.phase = "done", !.index = index, !.selections = @ + 1]
    ELSE [it EXCEPT !.phase = "run_scheduled", !.index = index, !.selections = @ + 1]

\* LspCodeActionsCommand._show_code_actions(actions), and the panel of the
\* lightbulb link: window = self.view.window(); if not window: return
ShowCodeActions(it, window) ==
    IF ~window
    THEN [it EXCEPT !.phase = "done", !.window = window]
    ELSE [it EXCEPT !.phase = "panel", !.window = window,
                    !.panels = Append(@, FormatCodeActionsForQuickPanel(it.actions))]

NoCodeActionsAvailable == "No code actions available"

\* LspCodeActionsCommand._handle_code_actions(response, run_first)
\* (MutantHandleEmptySilently: without the status message of the else branch)
MutantHandleEmptySilently(it, response, run_first, window) ==
    LET actions == FlattenActions(response)
        flat == [it EXCEPT !.actions = actions, !.run_first = run_first, !.window = window,
                           !.handled = TRUE, !.aggregate = response]
    IN  IF actions # <<>>
        THEN IF Len(actions) = 1 /\ run_first
             THEN HandleSelect(flat, 0)
             ELSE ShowCodeActions(flat, window)
        ELSE [flat EXCEPT !.phase = "done"]
MutantHandleIgnoresRunFirst(it, response, run_first, window) ==
    LET actions == FlattenActions(response)
        flat == [it EXCEPT !.actions = actions, !.run_first = run_first, !.window = window,
                           !.handled = TRUE, !.aggregate = response]
    IN  IF actions # <<>>
        THEN ShowCodeActions(flat, window)
        ELSE [flat EXCEPT !.phase = "done",
                          !.status = IF window THEN Append(@, NoCodeActionsAvailable) ELSE @]
HandleCodeActions(it, response, run_first, window) ==
    LET actions == FlattenActions(response)
        flat == [it EXCEPT !.actions = actions, !.run_first = run_first, !.window = window,
                           !.handled = TRUE, !.aggregate = response]
    IN  IF actions # <<>>
        THEN IF Len(actions) = 1 /\ run_first
             THEN HandleSelect(flat, 0)
             ELSE ShowCodeActions(flat, window)
        ELSE [flat EXCEPT !.phase = "done",
                          !.status = IF window THEN Append(@, NoCodeActionsAvailable) ELSE @]

\* DocumentSyncListener._on_navigate(href, point) for a 'code-actions:' link:
\* the actions of the first pair of self._actions_by_config with that name
OnNavigate(it, actions_by_config, config_name, window) ==
    LET found == SelectSeq(actions_by_config, LAMBDA pair : pair.name = config_name)
        flat == [it EXCEPT !.actions = ActionsOfConfig(config_name, Head(found).actions),
                           !.window = window, !.handled = TRUE,
                           !.aggregate = actions_by_config]
    IN  IF Len(flat.actions) > 1
        THEN ShowCodeActions(flat, window)
        ELSE HandleSelect(flat, 0)

\* run_async of the selection: config_name, action = actions[index];
\* session = self.session_by_name(config_name); if session:
\* session.run_code_action_async(action, progress=True)
MutantRunAsyncFirstPair(it, found) ==
    LET selected == it.actions[1]
    IN  IF found
        THEN [it EXCEPT !.phase = "running", !.session = "found",
                        !.runs = Append(@, [config_name |-> selected.config_name,
                                            action |-> selected.action,
                                            progress |-> TRUE])]
        ELSE [it EXCEPT !.phase = "done", !.session = "gone"]
RunAsyncSelected(it, found) ==
    LET selected == it.actions[it.index + 1]
    IN  IF found
        THEN [it EXCEPT !.phase = "running", !.session = "found",
                        !.runs = Append(@, [config_name |-> selected.config_name,
                                            action |-> selected.action,
                                            progress |-> TRUE])]
        ELSE [it EXCEPT !.phase = "done", !.session = "gone"]

\* sublime.error_message("{}: {}".format(session_name, str(response)))
ErrorMessage(session_name, response) == [session_name |-> session_name, text |-> response]

\* .then(lambda response: self._handle_response_async(config_name, response))
\* of the command; the listener attaches nothing to the run
MutantResponseUntagged(it, response) ==
    [it EXCEPT !.phase = "done", !.responses = Append(@, response),
               !.errors = IF it.path = "command" /\ response = "error"
                          THEN Append(@, ErrorMessage("", response))
                          ELSE @]
RunCodeActionSettled(it, response) ==
    [it EXCEPT !.phase = "done", !.responses = Append(@, response),
               !.errors = IF it.path = "command" /\ response = "error"
                          THEN Append(@, ErrorMessage(it.runs[Len(it.runs)].config_name, response))
                          ELSE @]

\* LspCodeActionsCommand.run(edit, event, only_kinds, code_actions_by_config),
\* with _run_async(only_kinds) when no aggregate is handed over
CommandRun(code_actions_by_config, has_region, listener, window) ==
    LET it == NewInteraction("command")
        fresh == Len(promises) + 1
    IN  /\ interaction = NoInteraction
        /\ IF code_actions_by_config # <<>>
           THEN /\ interaction' = HandleCodeActions(it, code_actions_by_config, TRUE, window)
                /\ UNCHANGED <<change_count, response_cache, promises, calls>>
           ELSE IF ~has_region \/ ~listener.present
           THEN /\ interaction' = [it EXCEPT !.phase = "done", !.has_region = has_region,
                                             !.has_listener = ~has_region \/ listener.present]
                /\ UNCHANGED <<change_count, response_cache, promises, calls>>
           ELSE /\ RequestForRegionAsync(1, <<0, 0>>, <<>>, <<>>, TRUE, listener)
                /\ interaction' =
                     [it EXCEPT !.promise = fresh,
                                !.phase = IF promises'[fresh].resolved
                                          THEN "handle_scheduled" ELSE "requesting"]
        /\ UNCHANGED <<save_task, evaluation>>

\* a session answers the command's request; once the aggregate is there:
\* .then(lambda actions: sublime.set_timeout(lambda: self._handle_code_actions(actions)))
CommandRespond(i, response) ==
    /\ interaction.phase = "requesting"
    /\ Respond(interaction.promise, i, response)
    /\ interaction' =
         [interaction EXCEPT !.phase = IF promises'[interaction.promise].resolved
                                       THEN "handle_scheduled" ELSE "requesting"]
    /\ UNCHANGED <<save_task, evaluation>>

\* the scheduled self._handle_code_actions(actions) runs
CommandHandle(window) ==
    /\ interaction.phase = "handle_scheduled"
    /\ interaction' = HandleCodeActions(interaction, promises[interaction.promise].value,
                                        FALSE, window)
    /\ UNCHANGED <<change_count, response_cache, promises, calls, save_task, evaluation>>

\* the user follows the lightbulb link of config_name
ListenerNavigate(actions_by_config, config_name, window) ==
    /\ interaction = NoInteraction
    /\ \E n \in 1..Len(actions_by_config) : actions_by_config[n].name = config_name
    /\ interaction' = OnNavigate(NewInteraction("listener"), actions_by_config,
                                 config_name, window)
    /\ UNCHANGED <<change_count, response_cache, promises, calls, save_task, evaluation>>

\* the quick panel calls back with the chosen index, -1 when dismissed
Select(index) ==
    /\ interaction.phase = "panel"
    /\ index \in -1..(Len(interaction.actions) - 1)
    /\ interaction' = HandleSelect(interaction, index)
    /\ UNCHANGED <<change_count, response_cache, promises, calls, save_task, evaluation>>

\* the scheduled run_async runs
SelectedRun(found) ==
    /\ interaction.phase = "run_scheduled"
    /\ interaction' = RunAsyncSelected(interaction, found)
    /\ UNCHANGED <<change_count, response_cache, promises, calls, save_task, evaluation>>

\* the promise of run_code_action_async settles, with None or with an Error
RunResponded(response) ==
    /\ interaction.phase = "running"
    /\ interaction' = RunCodeActionSettled(interaction, response)
    /\ UNCHANGED <<change_count, response_cache, promises, calls, save_task, evaluation>>

\* ------------------------------------------------ specification SpecCommand
\* One interactive selection, from the command or from the lightbulb link.

SessionPair(name, actions) == [name |-> name, actions |-> actions]

CommandAggregates ==
    {<<>>,
     <<SessionPair("A", <<QuickFixEntry>>)>>,
     <<SessionPair("A", <<QuickFixEntry, RefactorEntry>>)>>,
     <<SessionPair("A", <<QuickFixEntry>>), SessionPair("B", <<CommandEntry>>)>>,
     <<SessionPair("A", <<RefactorEntry, QuickFixEntry>>), SessionPair("B", <<QuickFixEntry>>)>>}
CommandListeners == {NoListener, Listener(<<>>), Listener(<<"A">>), Listener(<<"A", "B">>)}
CommandResponses ==
    {ErrorResponse, ListResponse(<<QuickFixEntry>>), ListResponse(<<QuickFixEntry, RefactorEntry>>)}
RunResponses == {"none", "error"}

Invoke ==
    \E code_actions_by_config \in CommandAggregates, has_region \in BOOLEAN,
       listener \in CommandListeners, window \in BOOLEAN :
        CommandRun(code_actions_by_config, has_region, listener, window)

CommandResponse ==
    /\ interaction.phase = "requesting"
    /\ \E i \in 1..Len(promises[interaction.promise].tasks), response \in CommandResponses :
           CommandRespond(i, response)

HandleScheduled == \E window \in BOOLEAN : CommandHandle(window)

Navigate ==
    \E actions_by_config \in CommandAggregates, config_name \in SessionNames,
       window \in BOOLEAN :
        ListenerNavigate(actions_by_config, config_name, window)

Selected ==
    /\ interaction.phase = "panel"
    /\ \E index \in -1..(Len(interaction.actions) - 1) : Select(index)

RunScheduled == \E found \in BOOLEAN : SelectedRun(found)

RunSettledWith == \E response \in RunResponses : RunResponded(response)

NextCommand ==
    \/ Invoke \/ CommandResponse \/ HandleScheduled \/ Navigate
    \/ Selected \/ RunScheduled \/ RunSettledWith

SpecCommand == Init /\ [][NextCommand]_vars


\* --------------------------------------------- claims on the selection

\* _handle_code_actions or _on_navigate has acted on the command / the link
CommandHandled ==
    /\ interaction.phase # "idle"
    /\ interaction.path = "command"
    /\ interaction.handled

\* the run_async scheduled by the selection has run
RunAsyncRan == interaction.phase \in {"running", "done"} /\ interaction.session # "unknown"

SelectedPair ==
    [config_name |-> interaction.actions[interaction.index + 1].config_name,
     action |-> interaction.actions[interaction.index + 1].action,
     progress |-> TRUE]

FastPath == Len(interaction.actions) = 1 /\ interaction.run_first
PanelPath == Len(interaction.actions) >= 2 \/ (Len(interaction.actions) = 1 /\ ~interaction.run_first)

\* C26 as stated: with exactly one action in total and run_first, that action
\* is executed and no quick panel is shown; with two or more actions, or without
\* run_first, the quick panel is shown with the full list and nothing is
\* executed before a selection is made.
C26_AsStated ==
    CommandHandled =>
        /\ FastPath =>
            /\ interaction.panels = <<>>
            /\ interaction.selections = 1 /\ interaction.index = 0
            /\ interaction.phase \in {"running", "done"} =>
                   interaction.runs = <<SelectedPair>>
        /\ PanelPath =>
            /\ interaction.panels = <<FormatCodeActionsForQuickPanel(interaction.actions)>>
            /\ interaction.selections = 0 => interaction.runs = <<>>

\* C26 (amended): with exactly one action in total and run_first, index 0 is
\* selected without any quick panel and the action is run if its session is
\* still found by name (nothing is run otherwise); with two or more actions,
\* or without run_first, the quick panel is shown with the full list if the
\* view has a window (nothing is shown otherwise), and nothing is run before
\* a selection is made.
C26_RunFirstOrQuickPanel ==
    CommandHandled =>
        /\ FastPath =>
            /\ interaction.panels = <<>>
            /\ interaction.selections = 1 /\ interaction.index = 0
            /\ RunAsyncRan =>
                   interaction.runs = IF interaction.session = "found"
                                      THEN <<SelectedPair>> ELSE <<>>
            /\ ~RunAsyncRan => interaction.runs = <<>>
        /\ PanelPath =>
            /\ interaction.panels =
                   IF interaction.window
                   THEN <<FormatCodeActionsForQuickPanel(interaction.actions)>>
                   ELSE <<>>
            /\ ~interaction.window => interaction.selections = 0
            /\ interaction.selections = 0 => interaction.runs = <<>>

\* both cases of C26 happen: the single action of a run_first aggregate has
\* been run without a panel
C26_Witness ==
    /\ CommandHandled /\ FastPath
    /\ interaction.runs = <<SelectedPair>>
    /\ interaction.panels = <<>>


\* the pair at 0-based position index of the aggregate flattened in session
\* order, then in each session's action order, as a run of that session
PairAt(aggregate, index) ==
    [config_name |-> FlattenPairs(aggregate)[index + 1].session,
     action |-> FlattenPairs(aggregate)[index + 1].action,
     progress |-> TRUE]

\* the items of the aggregate flattened in that order
ItemsOf(aggregate) ==
    [n \in 1..Len(FlattenPairs(aggregate)) |->
        [title |-> FlattenPairs(aggregate)[n].action.title,
         config_name |-> FlattenPairs(aggregate)[n].session]]

\* the list from which the selection is made: the whole aggregate for the
\* command, the actions of the link's session for the lightbulb link
Presented ==
    IF interaction.path = "command" THEN interaction.aggregate
    ELSE SelectSeq(interaction.aggregate,
                   LAMBDA pair : pair.name = interaction.actions[1].config_name)

InteractionHandled == interaction.phase # "idle" /\ interaction.handled

\* C27 as stated: the list shown is the aggregate flattened in aggregate order;
\* selecting index i >= 0 runs exactly the i-th pair on the session of that
\* name and nothing else; selecting -1 runs nothing and reports no error.
C27_AsStated ==
    InteractionHandled =>
        /\ (interaction.path = "command" /\ interaction.panels # <<>>) =>
               interaction.panels = <<ItemsOf(interaction.aggregate)>>
        /\ (interaction.selections = 1 /\ interaction.index >= 0
                /\ interaction.phase \in {"running", "done"}) =>
               interaction.runs = <<PairAt(Presented, interaction.index)>>
        /\ (interaction.selections = 1 /\ interaction.index = -1) =>
               interaction.runs = <<>> /\ interaction.errors = <<>>

\* C27 (amended): as stated, except that the selected pair is run only if a
\* session of that name is still found; if none is found nothing is run.
C27_SelectionRunsThatPair ==
    InteractionHandled =>
        /\ (interaction.path = "command" /\ interaction.panels # <<>>) =>
               interaction.panels = <<ItemsOf(interaction.aggregate)>>
        /\ interaction.selections <= 1
        /\ (interaction.selections = 1 /\ interaction.index >= 0 /\ RunAsyncRan) =>
               interaction.runs = IF interaction.session = "found"
                                  THEN <<PairAt(Presented, interaction.index)>>
                                  ELSE <<>>
        /\ ~RunAsyncRan => interaction.runs = <<>>
        /\ (interaction.selections = 1 /\ interaction.index = -1) =>
               /\ interaction.runs = <<>> /\ interaction.errors = <<>>
               /\ interaction.phase = "done"

\* the second session's action, third in the panel, has been selected and run
C27_Witness ==
    /\ InteractionHandled /\ interaction.path = "command"
    /\ Len(interaction.panels) = 1
    /\ interaction.index = 2
    /\ interaction.runs = <<PairAt(interaction.aggregate, 2)>>
    /\ interaction.runs[1].config_name = "B"


\* the run of the selected action has settled
RunHasSettled == InteractionHandled /\ interaction.responses # <<>>

\* the message that names the session of the run and carries its Error
TaggedError ==
    [session_name |-> interaction.runs[1].config_name, text |-> interaction.responses[1]]

\* C28 as stated: on the command's path and on the listener's path alike, a run
\* that settles with an Error is reported in a message tagged with the session
\* name, and a run that settles otherwise shows no message.
C28_AsStated ==
    RunHasSettled =>
        interaction.errors = IF interaction.responses[1] = "error"
                             THEN <<TaggedError>> ELSE <<>>

\* C28 (amended): a run started by LspCodeActionsCommand._handle_select that
\* settles with an Error is reported in one message tagged with the session
\* name, and one that settles otherwise shows no message; a run started by the
\* listener's handle_code_action_select shows no message however it settles.
C28_CommandReportsError ==
    /\ RunHasSettled =>
        interaction.errors = IF interaction.path = "command"
                                /\ interaction.responses[1] = "error"
                             THEN <<TaggedError>> ELSE <<>>
    /\ (interaction.phase # "idle" /\ interaction.responses = <<>>) =>
        interaction.errors = <<>>

\* the command's run of session B's action settled with an Error
C28_Witness ==
    /\ RunHasSettled /\ interaction.path = "command"
    /\ interaction.responses = <<"error">>
    /\ interaction.errors = <<ErrorMessage("B", "error")>>


\* ----------------------------------- diagnostics intersecting a region
\* DocumentSyncListener.diagnostics_intersecting_region_async (documents.py).

MaxPoint == 3
Points == 0..MaxPoint

\* sublime.Region(a, b): a and b in either order
Region(a, b) == <<a, b>>
RegionBegin(region) == IF region[1] <= region[2] THEN region[1] ELSE region[2]
RegionEnd(region) == IF region[1] <= region[2] THEN region[2] ELSE region[1]

\* region.contains(point): begin() <= point <= end()
RegionContains(region, point) == RegionBegin(region) <= point /\ point <= RegionEnd(region)

\* region.cover(other): the region spanning both, in the direction of region
RegionCover(region, other) ==
    LET begin == IF RegionBegin(region) <= RegionBegin(other)
                 THEN RegionBegin(region) ELSE RegionBegin(other)
        end == IF RegionEnd(region) >= RegionEnd(other)
               THEN RegionEnd(region) ELSE RegionEnd(other)
    IN  IF region[1] <= region[2] THEN Region(begin, end) ELSE Region(end, begin)

\* a session buffer: its session's name, sb.diagnostics_version and
\* sb.diagnostics, a list of (diagnostic, region) pairs
SessionBuffer(name, diagnostics_version, diagnostics) ==
    [name |-> name, diagnostics_version |-> diagnostics_version, diagnostics |-> diagnostics]

\* _diagnostics_async(allow_stale): the session buffers whose diagnostics are
\* of the view's current change count, or all of them
DiagnosticsAsync(session_buffers, view_change_count, allow_stale) ==
    SelectSeq(session_buffers,
              LAMBDA sb : sb.diagnostics_version = view_change_count \/ allow_stale)

\* if region.contains(candidate.a) or region.contains(candidate.b)
Touches(region, candidate) ==
    RegionContains(region, candidate[1]) \/ RegionContains(region, candidate[2])

\* the intersections list of one session buffer
Intersections(region, diagnostics) ==
    LET kept == SelectSeq(diagnostics, LAMBDA pair : Touches(region, pair.candidate))
    IN  [n \in 1..Len(kept) |-> kept[n].diagnostic]

\* covering = covering.cover(candidate), for each kept pair in turn
RECURSIVE CoverAll(_, _, _)
CoverAll(covering, region, diagnostics) ==
    IF diagnostics = <<>> THEN covering
    ELSE CoverAll(IF Touches(region, Head(diagnostics).candidate)
                  THEN RegionCover(covering, Head(diagnostics).candidate)
                  ELSE covering,
                  region, Tail(diagnostics))

RECURSIVE CoverBuffers(_, _, _)
CoverBuffers(covering, region, buffers) ==
    IF buffers = <<>> THEN covering
    ELSE CoverBuffers(CoverAll(covering, region, Head(buffers).diagnostics),
                      region, Tail(buffers))

\* diagnostics_intersecting_region_async(region): (result, covering)
DiagnosticsIntersectingRegionAsync(session_buffers, view_change_count, region) ==
    LET buffers == DiagnosticsAsync(session_buffers, view_change_count, FALSE)
        found == SelectSeq(buffers,
                           LAMBDA sb : Intersections(region, sb.diagnostics) # <<>>)
    IN  [result |-> [n \in 1..Len(found) |->
                        [sb |-> found[n].name,
                         intersections |-> Intersections(region, found[n].diagnostics)]],
         covering |-> CoverBuffers(Region(RegionBegin(region), RegionEnd(region)),
                                   region, buffers)]

\* -------------------------------------------- specification SpecDiagnostics
\* One call of diagnostics_intersecting_region_async, for every region and
\* for two session buffers with up to two and up to one diagnostics.

SelectedRegions == {Region(a, b) : a \in Points, b \in Points}
Spans == {span \in {Region(a, b) : a \in Points, b \in Points} : span[1] <= span[2]}
Diagnostic(n, candidate) == [diagnostic |-> n, candidate |-> candidate]
ViewChangeCount == 1
DiagnosticsVersions == {ViewChangeCount - 1, ViewChangeCount}
DiagnosticLists ==
    {<<>>} \cup {<<Diagnostic("d", s)>> : s \in Spans}
           \cup {<<Diagnostic("d", s), Diagnostic("e", t)>> : s \in Spans, t \in Spans}
SingleDiagnosticLists == {<<>>} \cup {<<Diagnostic("f", s)>> : s \in Spans}

InitDiagnostics ==
    /\ Quiet
    /\ \E region \in SelectedRegions, va \in DiagnosticsVersions, vb \in DiagnosticsVersions,
          da \in DiagnosticLists, db \in SingleDiagnosticLists :
          evaluation = [fn |-> "diagnostics_intersecting_region_async",
                        region |-> region,
                        session_buffers |-> <<SessionBuffer("A", va, da),
                                              SessionBuffer("B", vb, db)>>,
                        change_count |-> ViewChangeCount,
                        returned |-> FALSE, result |-> NoResult]

CallDiagnosticsIntersectingRegionAsync ==
    /\ evaluation.fn = "diagnostics_intersecting_region_async"
    /\ ~evaluation.returned
    /\ evaluation' = [evaluation EXCEPT
                        !.returned = TRUE,
                        !.result = DiagnosticsIntersectingRegionAsync(
                                       evaluation.session_buffers,
                                       evaluation.change_count, evaluation.region)]
    /\ UNCHANGED <<change_count, response_cache, promises, calls, save_task, interaction>>

NextDiagnostics == CallDiagnosticsIntersectingRegionAsync

SpecDiagnostics == InitDiagnostics /\ [][NextDiagnostics]_vars

\* the two spans have a point in common
SharesPoint(region, span) ==
    \E p \in Points : RegionContains(region, p) /\ RegionContains(span, p)

\* the session buffers whose diagnostics are up to date
UpToDate == SelectSeq(evaluation.session_buffers,
                      LAMBDA sb : sb.diagnostics_version = evaluation.change_count)

\* the diagnostics of sb whose span shares a point with the region
Sharing(sb) ==
    LET kept == SelectSeq(sb.diagnostics,
                          LAMBDA pair : SharesPoint(evaluation.region, pair.candidate))
    IN  [n \in 1..Len(kept) |-> kept[n].diagnostic]

\* the spans of the diagnostics that share a point with the region, over the
\* session buffers that are up to date
SharingSpans ==
    UNION {{UpToDate[m].diagnostics[n].candidate :
                n \in {k \in 1..Len(UpToDate[m].diagnostics) :
                          SharesPoint(evaluation.region, UpToDate[m].diagnostics[k].candidate)}} :
           m \in 1..Len(UpToDate)}

\* the hull of the region and of those spans
Hull ==
    LET spans == SharingSpans \cup {evaluation.region}
    IN  Region(CHOOSE b \in {RegionBegin(s) : s \in spans} :
                   \A s \in spans : b <= RegionBegin(s),
               CHOOSE e \in {RegionEnd(s) : s \in spans} :
                   \A s \in spans : e >= RegionEnd(s))

\* C29 as stated: diagnostics_intersecting_region_async(region) returns, for
\* each session buffer with up-to-date diagnostics, exactly the diagnostics
\* whose span shares at least one point with the region, without the session
\* buffers that have none, and a covering region that is the hull of the
\* region and of the spans returned and that contains the region.
C29_AsStated ==
    Returned("diagnostics_intersecting_region_async") =>
        LET with == SelectSeq(UpToDate, LAMBDA sb : Sharing(sb) # <<>>)
        IN  /\ evaluation.result.result =
                   [n \in 1..Len(with) |->
                       [sb |-> with[n].name, intersections |-> Sharing(with[n])]]
            /\ evaluation.result.covering = Hull
            /\ RegionBegin(evaluation.result.covering) <= RegionBegin(evaluation.region)
            /\ RegionEnd(evaluation.result.covering) >= RegionEnd(evaluation.region)


\* ------------------------------------------------- specification SpecConfig
\* One call of CodeActionOnSaveTask.is_applicable(view), which computes
\* _get_code_actions_on_save(view), for every pair of settings over four keys.

\* userprefs().lsp_code_actions_on_save after the call: the code updates a
\* copy of it (`.copy()` before `.update(view_code_actions)`)
GlobalDefaultsAfter(userprefs, view_code_actions) == userprefs

OnSaveSettingKeys == {Source, SourceFixAll, SourceOrganizeImports, QuickFix}

\* Dict[str, bool] with keys among OnSaveSettingKeys; a missing or empty view
\* setting is {} (`... or {}`)
OnSaveSettings == UNION {[K -> BOOLEAN] : K \in SUBSET OnSaveSettingKeys}

InitConfig ==
    /\ Quiet
    /\ \E userprefs \in OnSaveSettings, view_code_actions \in OnSaveSettings,
          has_window \in BOOLEAN :
          evaluation = [fn |-> "is_applicable", userprefs |-> userprefs,
                        view_code_actions |-> view_code_actions,
                        has_window |-> has_window, returned |-> FALSE,
                        code_actions_on_save |-> <<>>, userprefs_after |-> userprefs,
                        result |-> FALSE]

CallIsApplicable ==
    /\ evaluation.fn = "is_applicable"
    /\ ~evaluation.returned
    /\ evaluation' =
         [evaluation EXCEPT
            !.returned = TRUE,
            !.code_actions_on_save =
                GetCodeActionsOnSave(evaluation.userprefs, evaluation.view_code_actions),
            !.userprefs_after =
                GlobalDefaultsAfter(evaluation.userprefs, evaluation.view_code_actions),
            !.result = IsApplicable(evaluation.has_window, evaluation.userprefs,
                                    evaluation.view_code_actions)]
    /\ UNCHANGED <<change_count, response_cache, promises, calls, save_task, interaction>>

NextConfig == CallIsApplicable

SpecConfig == InitConfig /\ [][NextConfig]_vars

\* the key is 'source.' followed by anything
StartsWithSourceDot(key) ==
    /\ Len(key) >= Len(Source) + 1
    /\ \A n \in 1..Len(Source) : key[n] = Source[n]
    /\ key[Len(Source) + 1] = Dot

\* C30: the mapping computed by _get_code_actions_on_save has exactly the keys
\* of the global defaults and of the view's overrides that start with
\* 'source.', each with the view's value if the view has the key and with the
\* global value otherwise; the global defaults are the same after the call;
\* is_applicable is true iff the view has a window and the mapping is non-empty.
C30_EffectiveOnSaveConfiguration ==
    Returned("is_applicable") =>
        LET global == evaluation.userprefs
            view == evaluation.view_code_actions
            effective == evaluation.code_actions_on_save
        IN  /\ DOMAIN effective =
                   {key \in DOMAIN global \cup DOMAIN view : StartsWithSourceDot(key)}
            /\ \A key \in DOMAIN effective :
                   effective[key] = IF key \in DOMAIN view THEN view[key] ELSE global[key]
            /\ evaluation.userprefs_after = global
            /\ evaluation.result <=> (evaluation.has_window /\ DOMAIN effective # {})

\* the view overrides a global 'source.' key, each side has a key of its own,
\* a key outside 'source.' is dropped, and the task is applicable
C30_Witness ==
    /\ Returned("is_applicable")
    /\ evaluation.result
    /\ evaluation.userprefs = (SourceFixAll :> TRUE) @@ (QuickFix :> TRUE) @@ (Source :> TRUE)
    /\ evaluation.view_code_actions = (SourceFixAll :> FALSE) @@ (SourceOrganizeImports :> TRUE)
    /\ evaluation.code_actions_on_save =
           (SourceFixAll :> FALSE) @@ (SourceOrganizeImports :> TRUE)


\* ------------------------------------------------ specification SpecRequest
\* Calls of request_for_region_async and request_on_save_async for one view
\* and region, with diagnostics and only_kinds that vary from call to call,
\* and edits of the document between them.

DiagnosticsByBuffer ==
    {<<>>,
     <<BufferDiagnostics("A", <<"a1">>)>>,
     <<BufferDiagnostics("B", <<"b1">>), BufferDiagnostics("A", <<"a1", "a2">>)>>}
RequestOnlyKinds == {<<>>, <<QuickFix>>}
RequestSessions == <<"A", "B">>

RegionRequest ==
    /\ Len(calls) < MaxCalls
    /\ \E session_buffer_diagnostics \in DiagnosticsByBuffer,
          only_kinds \in RequestOnlyKinds, manual \in BOOLEAN :
          RequestForRegionAsync(1, <<0, 0>>, session_buffer_diagnostics, only_kinds,
                                manual, Listener(RequestSessions))
    /\ UNCHANGED <<save_task, evaluation, interaction>>

OnSaveRequest ==
    /\ Len(calls) < MaxCalls
    /\ \E diagnostics \in DiagnosticsByBuffer :
          RequestOnSaveAsync(1, (SourceFixAll :> TRUE),
                             ListenerWithDiagnostics(RequestSessions, diagnostics))
    /\ UNCHANGED <<save_task, evaluation, interaction>>

\* the document is modified between two calls
RequestChange ==
    /\ Edit(1)
    /\ UNCHANGED <<save_task, evaluation, interaction>>

NextRequest == RegionRequest \/ OnSaveRequest \/ RequestChange

SpecRequest == Init /\ [][NextRequest]_vars

\* the call sent requests of its own (it neither hit the cache nor lacked a
\* listener)
SentRequests(c) == c.requests # <<>>

\* the lists paired with the buffer of `session` in the call's input
ListsOf(c, session) ==
    {c.flow.session_buffer_diagnostics[n].intersections :
        n \in {k \in 1..Len(c.flow.session_buffer_diagnostics) :
                 c.flow.session_buffer_diagnostics[k].sb = session}}

\* C31: the request a call of request_for_region_async or request_on_save_async
\* sends to a session carries the diagnostics list paired with that session's
\* buffer in the call's diagnostics-by-session-buffer list (for on-save, the
\* list the listener returned), or the empty list when there is no such pair;
\* it never carries the list of another session's buffer.
C31_RequestCarriesOwnDiagnostics ==
    \A n \in 1..Len(calls) :
        SentRequests(calls[n]) =>
            \A i \in 1..Len(promises[calls[n].ret].tasks) :
                LET task == promises[calls[n].ret].tasks[i]
                    own == ListsOf(calls[n], task.session)
                IN  /\ task.request.present
                    /\ IF own = {} THEN task.request.diagnostics = <<>>
                       ELSE task.request.diagnostics \in own
                    /\ \A other \in SessionNames \ {task.session} :
                           task.request.diagnostics # <<>> =>
                               task.request.diagnostics \notin ListsOf(calls[n], other)

\* both flows have sent session A its own list while B's buffer came first in
\* the input, and have sent B an empty list when the input had no pair for it
C31_Witness ==
    /\ \E n \in 1..Len(calls) :
          /\ calls[n].flow.type = "region" /\ SentRequests(calls[n])
          /\ Len(calls[n].flow.session_buffer_diagnostics) = 2
          /\ promises[calls[n].ret].tasks[1].request.diagnostics = <<"a1", "a2">>
          /\ promises[calls[n].ret].tasks[2].request.diagnostics = <<"b1">>
    /\ \E n \in 1..Len(calls) :
          /\ calls[n].flow.type = "save" /\ SentRequests(calls[n])
          /\ Len(calls[n].flow.session_buffer_diagnostics) = 1
          /\ promises[calls[n].ret].tasks[1].request.diagnostics = <<"a1">>
          /\ promises[calls[n].ret].tasks[2].request.diagnostics = <<>>


\* ---------------------------------------------- specification SpecSaveLive
\* The run of the on-save task under the scheduling the code relies on: a
\* code-action request that is pending is eventually answered (with a list or
\* an Error), a run that is pending eventually settles, and a callback given to
\* sublime.set_timeout_async is eventually run. Edits are not forced, and
\* the change count is bounded, so from some point on no apply phase changes it.
\* One session, which has one kind enabled, or no listener at all.

LiveListeners == {NoListener, Listener(<<"A">>)}

SaveLive ==
    \E listener \in LiveListeners : RunAsync((SourceFixAll :> TRUE), <<>>, listener)

NextSaveLive == SaveLive \/ SaveResponse \/ RunSettled \/ SaveEdit \/ Cancel \/ RequestAgain

SpecSaveLive ==
    /\ Init
    /\ [][NextSaveLive]_vars
    /\ WF_vars(SaveResponse)
    /\ WF_vars(RunSettled)
    /\ WF_vars(RequestAgain)

Signalled == Started /\ save_task.signalled >= 1
Cancelled == Started /\ save_task.cancelled

\* C32 (liveness): once the task has been started, it eventually signals
\* completion unless it is cancelled, however many of its requests and runs
\* fail: a failed run does not change the document and starts no further cycle.
C32_EventuallySignals == Started ~> (Signalled \/ Cancelled)

\* a run of the second cycle failed and the task, never cancelled, signalled
C32_Witness ==
    /\ Signalled /\ ~Cancelled
    /\ save_task.cycles >= 2
    /\ \E n \in 1..Len(save_task.tasks) : save_task.tasks[n].outcome = "error"


\* the call is automatic and found in the slot an entry for its own buffer
\* id, change count and region
AutomaticHit(c) ==
    /\ c.flow.type = "region" /\ ~c.flow.manual /\ c.listener
    /\ c.before # NoCache
    /\ c.before.key = <<c.view, c.version, c.region>>

\* the calls that created a promise of their own
Creators == {n \in 1..Len(calls) : ~AutomaticHit(calls[n])}

\* C33: an automatic call that finds an entry for its buffer id, change count
\* and region returns the stored promise and sends nothing, whatever its
\* diagnostics and only_kinds: the promise keeps the flow (diagnostics and
\* only_kinds) of the call that created it, and only the calls that did not hit
\* created a promise.
C33_HitIgnoresDiagnosticsAndKinds ==
    /\ \A n \in 1..Len(calls) :
        AutomaticHit(calls[n]) =>
            /\ calls[n].ret = calls[n].before.task
            /\ calls[n].requests = <<>>
            /\ \E m \in 1..(n - 1) :
                  /\ m \in Creators
                  /\ calls[m].ret = calls[n].ret
                  /\ promises[calls[n].ret].flow = calls[m].flow
                  /\ calls[m].version = calls[n].version
    /\ Len(promises) = Cardinality(Creators)

\* a hit by a call whose diagnostics and only_kinds both differ from those of
\* the call that created the entry: the requests in flight carry the old ones
C33_Witness ==
    \E n \in 1..Len(calls) :
        /\ AutomaticHit(calls[n])
        /\ calls[n].flow.only_kinds # promises[calls[n].ret].flow.only_kinds
        /\ calls[n].flow.session_buffer_diagnostics #
               promises[calls[n].ret].flow.session_buffer_diagnostics
        /\ promises[calls[n].ret].tasks[1].request.diagnostics = <<>>
        /\ DiagnosticsOfSession(calls[n].flow.session_buffer_diagnostics, "A") # <<>>


\* -------------------------------------------- specification SpecSaveSource
\* Runs of the on-save task under settings that hold the key 'source'.

SourceUserPrefs ==
    {(Source :> TRUE) @@ (SourceFixAll :> FALSE),
     (Source :> TRUE) @@ (SourceFixAll :> TRUE)}
SourceViewSettings == {<<>>, (Source :> TRUE) @@ (SourceOrganizeImports :> FALSE)}
SourceListeners == {Listener(<<"A">>), Listener(<<"A", "C">>)}

SaveSource ==
    \E userprefs \in SourceUserPrefs, view_code_actions \in SourceViewSettings,
       listener \in SourceListeners :
        RunAsync(userprefs, view_code_actions, listener)

NextSaveSource ==
    SaveSource \/ SaveResponse \/ RunSettled \/ SaveEdit \/ Cancel \/ RequestAgain

SpecSaveSource == Init /\ [][NextSaveSource]_vars

\* 'source' is enabled and no other key is
OnlySourceEnabled(config) ==
    /\ Source \in DOMAIN config
    /\ \A key \in DOMAIN config : config[key] <=> key = Source

\* the settings of the task as configured, before the on-save filter
Configured == save_task.view_code_actions @@ save_task.userprefs

\* C34: when 'source' is the only enabled key of the configuration, the
\* mapping the task hands to request_on_save_async has no key 'source', no
\* code-action request is sent and no action is run, although
\* get_matching_on_save_kinds applied to the mapping that holds just that key
\* returns every kind of the session that starts with 'source.'.
C34_BareSourceKeyIsDropped ==
    (Started /\ OnlySourceEnabled(Configured)) =>
        /\ Source \notin DOMAIN GetCodeActionsOnSave(save_task.userprefs,
                                                    save_task.view_code_actions)
        /\ \A n \in 1..Len(calls) :
              /\ calls[n].flow.type = "save"
              /\ Source \notin DOMAIN calls[n].flow.on_save_actions
              /\ calls[n].requests = <<>>
              /\ promises[calls[n].ret].tasks = <<>>
        /\ save_task.tasks = <<>>
        /\ \A n \in 1..Len(save_task.listener.sessions) :
              LET session_kinds == GetSessionKinds(save_task.listener.sessions[n])
                  direct == GetMatchingOnSaveKinds((Source :> TRUE), session_kinds)
              IN  \A k \in 1..Len(session_kinds) :
                      StartsWith(session_kinds[k], SourcePrefix) =>
                          SeqContains(direct, session_kinds[k])

\* such a task ran its single cycle for sessions that advertise 'source.*'
\* kinds and completed without a request
C34_Witness ==
    /\ Started /\ OnlySourceEnabled(Configured)
    /\ save_task.listener = Listener(<<"A", "C">>)
    /\ save_task.phase = "complete" /\ save_task.cycles = 1
    /\ Len(calls) = 1 /\ calls[1].requests = <<>>
    /\ GetMatchingOnSaveKinds((Source :> TRUE), GetSessionKinds("A")) =
           <<SourceFixAll, SourceOrganizeImports>>


\* ------------------------------------ further claims on the on-save task

\* in this step the aggregate of the current Resolving phase settles: the last
\* awaited response arrives, or the scheduled cycle sends no request at all
AggregateSettles ==
    /\ Started
    /\ \/ /\ save_task.phase = "resolving"
          /\ ~promises[save_task.promise].resolved
          /\ promises'[save_task.promise].resolved
       \/ /\ save_task.phase = "scheduled"
          /\ Len(promises') = Len(promises) + 1
          /\ promises'[Len(promises')].resolved

\* the cancelled flag is set in this step, while runs are under way
CancelledWhileApplying ==
    /\ Started /\ save_task.phase = "applying"
    /\ ~save_task.cancelled /\ save_task'.cancelled

\* C35: if _cancelled is set when the aggregate of a Resolving phase settles,
\* the task starts no run, schedules no cycle and does not call _on_complete,
\* and nothing happens to it afterwards; a cancellation during the Applying
\* phase leaves the started runs as they are, and they go on to settle.
C35_CancelledWhenAggregateSettles ==
    [][/\ (AggregateSettles /\ save_task.cancelled) =>
            /\ save_task'.phase = "returned"
            /\ save_task'.tasks = <<>>
            /\ save_task'.completed = save_task.completed
            /\ save_task'.signalled = 0
            /\ Len(save_task'.log) = Len(save_task.log)
       /\ (Started /\ save_task.phase = "returned") =>
            /\ save_task' = save_task
            /\ calls' = calls
       /\ CancelledWhileApplying =>
            /\ save_task'.tasks = save_task.tasks
            /\ save_task'.phase = "applying"
            /\ \E n \in 1..Len(save_task'.tasks) : ~save_task'.tasks[n].settled
       /\ (Started /\ save_task.phase = "applying" /\ save_task.cancelled) =>
            \A n \in 1..Len(save_task.tasks) :
                /\ Len(save_task'.tasks) = Len(save_task.tasks)
                /\ save_task'.tasks[n].session = save_task.tasks[n].session
                /\ save_task'.tasks[n].action = save_task.tasks[n].action
                /\ save_task.tasks[n].settled => save_task'.tasks[n].settled
      ]_vars

\* the first aggregate brought actions, the task had been cancelled meanwhile
\* and returned without running them
C35_Witness ==
    /\ Started /\ save_task.cancelled
    /\ save_task.phase = "returned" /\ save_task.cycles = 1
    /\ promises[save_task.promise].value # <<>>
    /\ save_task.tasks = <<>>


\* on_done has been called when the nth cycle ended: it is called only by
\* _on_complete, which ends the last cycle
SignalledAt(n) ==
    /\ n = Len(save_task.log)
    /\ save_task.phase = "complete"
    /\ save_task.signalled >= 1

\* the nth cycle ended by scheduling the next one
ScheduledAt(n) == save_task.log[n].outcome = "again"

\* C36 as stated: completion is signalled at most once, every cycle ends in
\* exactly one of scheduling a new cycle and signalling completion, and once
\* completion is signalled the task sends no request and runs no action.
C36_AsStated ==
    Started =>
        /\ save_task.signalled <= 1
        /\ save_task.phase # "returned"
        /\ \A n \in 1..Len(save_task.log) : ScheduledAt(n) <=> ~SignalledAt(n)
        /\ save_task.signalled = 1 =>
              /\ save_task.phase = "complete"
              /\ \A n \in 1..Len(save_task.tasks) : save_task.tasks[n].settled
              /\ Len(calls) = save_task.cycles

\* C36 (amended): completion is signalled at most once; no cycle ends in both
\* scheduling a new cycle and signalling completion; a cycle that ends while
\* the task is not cancelled ends in exactly one of the two, and a cycle of a
\* cancelled task may end in neither (it returns when its aggregate settles,
\* or completes without the signal); once completion is signalled the task
\* sends no request and runs no action.
C36_OneOutcomePerCycle ==
    /\ [](Started =>
            /\ save_task.signalled <= 1
            /\ save_task.completed <= 1
            /\ save_task.phase = "returned" => save_task.cancelled
            /\ \A n \in 1..Len(save_task.log) :
                  /\ ~(ScheduledAt(n) /\ SignalledAt(n))
                  /\ ~save_task.log[n].cancelled => (ScheduledAt(n) \/ SignalledAt(n))
                  /\ ScheduledAt(n) => save_task.cycles > n \/ save_task.phase = "scheduled"
            /\ save_task.signalled = 1 =>
                  /\ save_task.phase = "complete"
                  /\ \A n \in 1..Len(save_task.tasks) : save_task.tasks[n].settled
                  /\ Len(calls) = save_task.cycles)
    /\ [][(Started /\ save_task.signalled >= 1) =>
            /\ calls' = calls
            /\ promises' = promises
            /\ save_task' = save_task]_vars

\* a task of two cycles: the first ended by scheduling the second, the second
\* by the signal
C36_Witness ==
    /\ Started /\ ~save_task.cancelled
    /\ Len(save_task.log) = 2
    /\ ScheduledAt(1) /\ ~SignalledAt(1)
    /\ SignalledAt(2) /\ ~ScheduledAt(2)
    /\ save_task.tasks # <<>>


\* ------------------------------------------------- specification SpecEmpty
\* One use of the interactive command, or one run of the on-save task.

EmptyInvoke == save_task = NoSaveTask /\ Invoke

EmptySave == interaction = NoInteraction /\ SaveLive

NextEmpty ==
    \/ EmptyInvoke \/ CommandResponse \/ HandleScheduled
    \/ Selected \/ RunScheduled \/ RunSettledWith
    \/ EmptySave \/ SaveResponse \/ RunSettled \/ SaveEdit \/ Cancel \/ RequestAgain

SpecEmpty == Init /\ [][NextEmpty]_vars

\* the command got an empty aggregate
CommandGotNothing == CommandHandled /\ interaction.aggregate = <<>>

\* the command was run for a view without listener
CommandWithoutListener ==
    /\ interaction.phase # "idle" /\ interaction.path = "command"
    /\ ~interaction.has_listener

\* the aggregate of the task's current cycle is there and is empty
TaskGotNothing ==
    /\ Started
    /\ save_task.phase # "scheduled"
    /\ promises[save_task.promise].resolved
    /\ promises[save_task.promise].value = <<>>

\* C37 as stated: with an empty aggregate, and for a view without listener, the
\* command shows 'No code actions available', no quick panel, and runs
\* nothing; the on-save task runs no action and signals completion.
C37_AsStated ==
    /\ (CommandGotNothing \/ CommandWithoutListener) =>
          /\ interaction.status = <<NoCodeActionsAvailable>>
          /\ interaction.panels = <<>>
          /\ interaction.runs = <<>>
    /\ TaskGotNothing =>
          /\ save_task.tasks = <<>>
          /\ save_task.signalled = 1

\* C37 (amended): with an empty aggregate the command shows the status if the
\* view has a window, no quick panel, and runs nothing; for a view without
\* listener it returns without a request and shows nothing at all; the on-save
\* task runs no action and completes with the signal after that cycle, unless
\* it was cancelled by the time the aggregate settled, in which case it returns
\* without the signal.
C37_EmptyAggregate ==
    /\ CommandGotNothing =>
          /\ interaction.status = IF interaction.window
                                  THEN <<NoCodeActionsAvailable>> ELSE <<>>
          /\ interaction.panels = <<>>
          /\ interaction.runs = <<>>
          /\ interaction.phase = "done"
    /\ CommandWithoutListener =>
          /\ interaction.status = <<>>
          /\ interaction.panels = <<>>
          /\ interaction.runs = <<>>
          /\ interaction.phase = "done"
          /\ calls = <<>>
    /\ TaskGotNothing =>
          /\ save_task.tasks = <<>>
          /\ Len(calls) = save_task.cycles
          /\ IF save_task.phase = "returned"
             THEN save_task.cancelled /\ save_task.signalled = 0
             ELSE /\ save_task.phase = "complete"
                  /\ save_task.signalled = 1
                  /\ save_task.log[Len(save_task.log)].outcome = "complete"

\* every session failed: the command showed the status and nothing else
C37_Witness ==
    /\ CommandGotNothing
    /\ interaction.promise # 0
    /\ \A i \in 1..Len(promises[interaction.promise].tasks) :
          promises[interaction.promise].tasks[i].response = ErrorResponse
    /\ Len(promises[interaction.promise].tasks) = 2
    /\ interaction.status = <<NoCodeActionsAvailable>>


\* ---------------------------------------------- specification SpecListener
\* The DocumentSyncListener of view 1 with show_code_actions set: its stored
\* region, the debounced automatic requests and the decoration drawn from
\* their responses.

\* sublime.Region(-1, -1)
NoRegion == <<-1, -1>>

\* nothing under SessionView.CODE_ACTIONS_KEY
NoAnnotation == [drawn |-> FALSE]

\* DocumentSyncListener.__init__ (the fields used for code actions); `debounce`
\* holds the regions with a timer running, `then` the promises that
\* _on_code_actions is chained to, `stored_from` the promise whose value
\* _actions_by_config holds (history)
NewDocumentSyncListener(show_code_actions) ==
    [fn |-> "listener", show_code_actions |-> show_code_actions,
     stored_region |-> NoRegion, debounce |-> {}, then |-> {},
     annotation |-> NoAnnotation, actions_by_config |-> <<>>, stored_from |-> 0]

\* DocumentSyncListener._clear_code_actions_annotation
ClearCodeActionsAnnotation(lst) == [lst EXCEPT !.annotation = NoAnnotation]

\* DocumentSyncListener._on_code_actions(responses), as the callback chained to
\* promise p; `version` of the annotation is history
OnCodeActions(lst, p, responses, version) ==
    IF FlattenActions(responses) = <<>>
    THEN lst
    ELSE [lst EXCEPT
            !.annotation = [drawn |-> TRUE, region |-> lst.stored_region,
                            version |-> version, responses |-> responses, promise |-> p],
            !.actions_by_config = IF lst.show_code_actions = "bulb"
                                  THEN responses ELSE @,
            !.stored_from = IF lst.show_code_actions = "bulb" THEN p ELSE @]

\* DocumentSyncListener._do_code_actions_async: the request for the stored
\* region, with _on_code_actions chained to the promise it returns
DoCodeActionsAsync(lst) ==
    LET ret == IF CacheHit(response_cache,
                           LocationCacheKey(1, change_count[1], lst.stored_region))
               THEN response_cache.task
               ELSE Len(promises) + 1
    IN  /\ RequestForRegionAsync(1, lst.stored_region, <<>>, <<>>, FALSE, Listener(<<"A">>))
        /\ evaluation' =
              IF promises'[ret].resolved
              THEN OnCodeActions(lst, ret, promises'[ret].value, change_count[1])
              ELSE [lst EXCEPT !.then = @ \cup {ret}]

InitListener ==
    /\ change_count = [v \in Views |-> 0]
    /\ response_cache = NoCache
    /\ promises = <<>>
    /\ calls = <<>>
    /\ save_task = NoSaveTask
    /\ evaluation \in {NewDocumentSyncListener(mode) : mode \in {"bulb", "annotation"}}
    /\ interaction = NoInteraction

\* DocumentSyncListener.on_selection_modified_async, the first selection
\* being `current_region`
SelectionModified ==
    /\ \E current_region \in Regions :
          /\ evaluation.stored_region # current_region
          /\ evaluation' = [ClearCodeActionsAnnotation(evaluation) EXCEPT
                               !.stored_region = current_region,
                               !.debounce = @ \cup {current_region}]
    /\ UNCHANGED <<change_count, response_cache, promises, calls, save_task, interaction>>

\* The timer of _when_selection_remains_stable_async(f, r) runs out: f is
\* called if the stored region is still r.
SelectionStable ==
    /\ Len(calls) < MaxCalls
    /\ \E r \in evaluation.debounce :
          LET lst == [evaluation EXCEPT !.debounce = @ \ {r}]
          IN  IF lst.stored_region = r
              THEN DoCodeActionsAsync(lst)
              ELSE /\ evaluation' = lst
                   /\ UNCHANGED <<change_count, response_cache, promises, calls>>
    /\ UNCHANGED <<save_task, interaction>>

\* DocumentSyncListener.on_text_changed_async, the first selection being
\* `current_region` after the change
TextChanged ==
    /\ \E current_region \in Regions :
          /\ evaluation.stored_region # NoRegion
          /\ Edit(1)
          /\ evaluation' = [evaluation EXCEPT !.stored_region = current_region]
    /\ UNCHANGED <<save_task, interaction>>

\* DocumentSyncListener.on_diagnostics_updated_async(is_view_visible = True)
DiagnosticsUpdated ==
    /\ Len(calls) < MaxCalls
    /\ evaluation.stored_region # NoRegion
    /\ DoCodeActionsAsync(ClearCodeActionsAnnotation(evaluation))
    /\ UNCHANGED <<save_task, interaction>>

ListenerResponses == {ListResponse(<<QuickFixEntry>>), ListResponse(<<>>)}

\* The session answers the request of promise p; the aggregate resolves and
\* the chained _on_code_actions runs.
ListenerResponse ==
    /\ \E p \in 1..Len(promises), response \in ListenerResponses :
          /\ Respond(p, 1, response)
          /\ evaluation' =
                IF p \in evaluation.then
                THEN OnCodeActions([evaluation EXCEPT !.then = @ \ {p}], p,
                                   promises'[p].value, change_count[1])
                ELSE evaluation
    /\ UNCHANGED <<save_task, interaction>>

NextListener ==
    \/ SelectionModified \/ SelectionStable \/ TextChanged
    \/ DiagnosticsUpdated \/ ListenerResponse

SpecListener == InitListener /\ [][NextListener]_vars

\* the selection and document version the request of promise p was issued for
IssuedFor(p) == [region |-> promises[p].key[3], version |-> promises[p].key[2]]

\* the stored actions are those of a response that is late: the stored region
\* or the document is no longer what its request was issued for
StoredFromLate ==
    /\ evaluation.stored_from # 0
    /\ evaluation.annotation.drawn
    /\ evaluation.annotation.promise = evaluation.stored_from
    /\ \/ evaluation.annotation.region # IssuedFor(evaluation.stored_from).region
       \/ evaluation.annotation.version # IssuedFor(evaluation.stored_from).version

\* C38 as stated: the annotation or lightbulb drawn from an automatic response
\* is at the selection, and for the document version, that the request was
\* issued for, and a late response does not replace the stored actions.
C38_AsStated ==
    /\ evaluation.annotation.drawn =>
          /\ evaluation.annotation.region = IssuedFor(evaluation.annotation.promise).region
          /\ evaluation.annotation.version = IssuedFor(evaluation.annotation.promise).version
    /\ ~StoredFromLate


\* ----------------------------------------------- specification SpecManager
\* WindowConfigManager: one globally defined configuration and one that only
\* the project file defines, with session and project disabling.

GlobalName == "global"
ProjectOnlyName == "project"
ConfigNames == {GlobalName, ProjectOnlyName}

\* What the project file holds under settings.LSP for a name: nothing, a value
\* that is no mapping, or a mapping without "enabled", with "enabled": true or
\* with "enabled": false.
ProjectValues == {"absent", "other", "dict", "on", "off"}

IsDict(value) == value \in {"dict", "on", "off"}

\* no entry in WindowConfigManager.all
NoConfig == [present |-> FALSE, enabled |-> FALSE]

ClientConfig(enabled) == [present |-> TRUE, enabled |-> enabled]

\* ClientConfig.from_config(config, overrides): an "enabled" of the overrides
\* wins over the configuration's
FromConfig(config, overrides) ==
    ClientConfig(IF overrides = "on" THEN TRUE
                 ELSE IF overrides = "off" THEN FALSE
                 ELSE config.enabled)

\* ClientConfig.from_dict(name, c): raises for a value that is no mapping
\* (the entry is then left as it was); "enabled" defaults to False
FromDict(old, c) == IF IsDict(c) THEN ClientConfig(c = "on") ELSE old

\* enable_in_project(window, name) and disable_in_project(window, name)
EnableInProject(project_settings, name) == [project_settings EXCEPT ![name] = "on"]
DisableInProject(project_settings, name) == [project_settings EXCEPT ![name] = "off"]

\* the overrides of a globally defined configuration in update
OverridesOf(m, name) ==
    IF name \in m.disabled_for_session THEN "off"
    ELSE IF IsDict(m.project_settings[name]) THEN m.project_settings[name]
    ELSE "dict"

\* WindowConfigManager.update(updated_config_name); AllNames stands for None
AllNames == "*"
Update(m, updated_config_name) ==
    LET cleared == IF updated_config_name = AllNames
                   THEN [n \in ConfigNames |-> NoConfig] ELSE m.all
        wanted(n) == updated_config_name = AllNames \/ updated_config_name = n
    IN  [m EXCEPT !.all =
            [n \in ConfigNames |->
                IF ~wanted(n) THEN cleared[n]
                ELSE IF n \in DOMAIN m.global_configs
                THEN FromConfig(m.global_configs[n], OverridesOf(m, n))
                ELSE IF m.project_settings[n] # "absent"
                THEN FromDict(cleared[n], m.project_settings[n])
                ELSE cleared[n]]]

\* WindowConfigManager.__init__(window, global_configs); `disabled_since` and
\* `last` are history: the names disabled for the session by a call and not
\* enabled by a call since, and the last call of enable_config
NewWindowConfigManager(global_configs, project_settings) ==
    Update([fn |-> "manager", global_configs |-> global_configs,
            project_settings |-> project_settings,
            disabled_for_session |-> {}, all |-> [n \in ConfigNames |-> NoConfig],
            disabled_since |-> {},
            last |-> [name |-> AllNames, was_disabled |-> FALSE, in_project |-> FALSE]],
           AllNames)

\* WindowConfigManager.enable_config(config_name)
EnableConfig(m, config_name) ==
    LET reenabled == config_name \in m.disabled_for_session
    IN  Update([m EXCEPT
                  !.disabled_for_session = @ \ {config_name},
                  !.project_settings = IF reenabled THEN @
                                       ELSE EnableInProject(@, config_name),
                  !.disabled_since = @ \ {config_name},
                  !.last = [name |-> config_name,
                            was_disabled |-> config_name \in m.disabled_since,
                            in_project |-> ~reenabled]],
               config_name)

\* WindowConfigManager.disable_config(config_name, only_for_session)
DisableConfig(m, config_name, only_for_session) ==
    Update(IF only_for_session
           THEN [m EXCEPT !.disabled_for_session = @ \cup {config_name},
                          !.disabled_since = @ \cup {config_name}]
           ELSE [m EXCEPT !.project_settings = DisableInProject(@, config_name)],
           config_name)

InitManager ==
    /\ change_count = [v \in Views |-> 0]
    /\ response_cache = NoCache
    /\ promises = <<>>
    /\ calls = <<>>
    /\ save_task = NoSaveTask
    /\ interaction = NoInteraction
    /\ \E enabled \in BOOLEAN, project_settings \in [ConfigNames -> ProjectValues] :
          evaluation = NewWindowConfigManager((GlobalName :> [enabled |-> enabled]),
                                              project_settings)

CallUpdate ==
    /\ \E updated_config_name \in ConfigNames \cup {AllNames} :
          evaluation' = Update(evaluation, updated_config_name)
    /\ UNCHANGED <<change_count, response_cache, promises, calls, save_task, interaction>>

CallEnableConfig ==
    /\ \E config_name \in ConfigNames :
          /\ evaluation.project_settings[config_name] # "other"
          /\ evaluation' = EnableConfig(evaluation, config_name)
    /\ UNCHANGED <<change_count, response_cache, promises, calls, save_task, interaction>>

CallDisableConfig ==
    /\ \E config_name \in ConfigNames, only_for_session \in BOOLEAN :
          /\ evaluation.project_settings[config_name] # "other"
          /\ evaluation' = DisableConfig(evaluation, config_name, only_for_session)
    /\ UNCHANGED <<change_count, response_cache, promises, calls, save_task, interaction>>

NextManager == CallUpdate \/ CallEnableConfig \/ CallDisableConfig

SpecManager == InitManager /\ [][NextManager]_vars

====
